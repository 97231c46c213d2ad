---------------------------- MODULE TaskLocksProofs ----------------------------
(***************************************************************************)
(* The safety properties of TaskLocks for any providers, any number of     *)
(* tasks and any processes.                                                *)
(*                                                                         *)
(* A token is a message whose task is still to be run.  Every step moves   *)
(* one: TokenMoves says once what a move must be like for the links to be  *)
(* run at most once, whatever the locks do, and each action is shown to be *)
(* such a move.                                                            *)
(***************************************************************************)
EXTENDS TaskLocks, TLAPS

\* A process that has taken a message and not run its task yet.
Busy(w) == pc[w] \in {"locking", "running"}

\* Where a message may be, and the messages whose task is still to be run, where
\* they are.
Places == ({"process"} \X Procs) \cup ({"queue"} \X Queues)
Token == [at : Places, msg : Message]

Taken(w) == [at |-> <<"process", w>>, msg |-> job[w]]
Waiting(q, m) == [at |-> <<"queue", q>>, msg |-> m]

Tokens == {Taken(w) : w \in {v \in Procs : Busy(v)}}
          \cup UNION {{Waiting(q, m) : m \in queue[q]} : q \in Queues}

\* The chain and the link a token is about, and whether the rest of the chain is with it.
Chain(t) == t.msg.provider
Pos(t) == t.msg.link
Whole(t) == t.msg.linked = TRUE

\* No link is waiting or in work twice, and none is that has run.
OneToken == \A s, t \in Tokens : Chain(s) = Chain(t) /\ Pos(s) = Pos(t) => s = t
NotRunYet == \A t \in Tokens : ran[Chain(t)][Pos(t)] = 0

\* What travels with the rest of the chain is the foremost link of the chain.
Foremost ==
    \A t \in Tokens : Whole(t) =>
        /\ \A s \in Tokens : Chain(s) = Chain(t) => Pos(s) <= Pos(t)
        /\ \A i \in Link : i > Pos(t) => ran[Chain(t)][i] = 0

\* A message with a result follows a link that has run.
Successful(t) == t.msg.result = TRUE
ResultOfRun ==
    \A t \in Tokens : Successful(t) =>
        \A i \in Link : i + 1 = Pos(t) => ran[Chain(t)][i] = 1

IInv == TypeOK /\ RunsOnce /\ OneToken /\ NotRunYet /\ Foremost
        /\ ResultOfRun /\ LastTaskBeforeEnd

-------------------------------------------------------------------------------
(* Links, messages and keys *)

LEMMA Links ==
    /\ Task \subseteq Link /\ Link \subseteq Nat
    /\ FinalizeLink \in Link /\ WaitLink \in Link
    /\ NTasks \in Link /\ NTasks + 1 = FinalizeLink
    /\ FinalizeLink \notin Task /\ WaitLink \notin Task
    /\ \A i \in Link : i # WaitLink => i + 1 \in Link
    /\ \A i \in Link : i \notin Task => i = FinalizeLink \/ i = WaitLink
BY NTasksAssumption DEF Task, Link, FinalizeLink, WaitLink

\* What is sent when the task of m has ended.
Onward(m, r) == [m EXCEPT !.link = m.link + 1, !.result = r]

LEMMA OnwardTyped ==
    ASSUME NEW m \in Message, m.link # WaitLink, NEW r \in BOOLEAN
    PROVE  /\ Onward(m, r) \in Message
           /\ Onward(m, r).provider = m.provider
           /\ Onward(m, r).link = m.link + 1
           /\ Onward(m, r).linked = m.linked
           /\ Onward(m, r).result = r
BY Links DEF Onward, Message

LEMMA UnlinkedTyped ==
    ASSUME NEW m \in Message
    PROVE  /\ [m EXCEPT !.linked = FALSE] \in Message
           /\ [m EXCEPT !.linked = FALSE].provider = m.provider
           /\ [m EXCEPT !.linked = FALSE].link = m.link
           /\ [m EXCEPT !.linked = FALSE].linked = FALSE
           /\ [m EXCEPT !.linked = FALSE].result = m.result
BY DEF Message

LEMMA NotAMessage == NoJob \notin Message /\ NoJob.link \notin {FinalizeLink, WaitLink}
BY NoProviderAssumption, NTasksAssumption DEF NoJob, First, Message, FinalizeLink, WaitLink

LEMMA RouteTyped == \A p, i : Route(p, i) \in Queues
BY DEF Route, Queues

-------------------------------------------------------------------------------
(* Tokens *)

LEMMA TokenOf ==
    ASSUME NEW t
    PROVE  t \in Tokens <=> \/ \E w \in Procs : Busy(w) /\ t = Taken(w)
                            \/ \E q \in Queues : \E m \in queue[q] : t = Waiting(q, m)
BY DEF Tokens

LEMMA TokensTyped == TypeOK => Tokens \subseteq Token
<1> SUFFICES ASSUME TypeOK, NEW t \in Tokens PROVE t \in Token OBVIOUS
<1>1. CASE \E w \in Procs : Busy(w) /\ t = Taken(w)
  BY <1>1 DEF TypeOK, Busy, Taken, Token, Places
<1>2. CASE \E q \in Queues : \E m \in queue[q] : t = Waiting(q, m)
  BY <1>2 DEF TypeOK, Waiting, Token, Places
<1> QED BY <1>1, <1>2, TokenOf

\* A token t goes, and those of moved come: of its link, if that has not run, and of the
\* next, if the rest of the chain was with it.
IsMove(t, moved) ==
    /\ moved \subseteq Token
    /\ \A s \in moved : /\ Chain(s) = Chain(t)
                        /\ Whole(s) => Whole(t)
                        /\ \/ Pos(s) = Pos(t)
                           \/ Whole(t) /\ Pos(s) = Pos(t) + 1
    /\ \A s, u \in moved : Pos(s) = Pos(u) => s = u
    /\ \A s, u \in moved : Whole(s) => Pos(u) <= Pos(s)

\* The link of t is run.
Runs(t) == ran' = [ran EXCEPT ![Chain(t)][Pos(t)] = @ + 1]

LEMMA TokenMoves ==
    ASSUME TypeOK, RunsOnce, OneToken, NotRunYet, Foremost,
           NEW t \in Tokens, NEW moved, IsMove(t, moved),
           Tokens' \subseteq (Tokens \ {t}) \cup moved,
           ran' = ran \/ (Runs(t) /\ \A s \in moved : Pos(s) # Pos(t))
    PROVE  RunsOnce' /\ OneToken' /\ NotRunYet' /\ Foremost'
<1> DEFINE p == Chain(t)  k == Pos(t)
<1>1. /\ p \in Providers /\ k \in Link /\ k \in Nat /\ Link \subseteq Nat /\ ran[p][k] = 0
      /\ \A s \in Tokens \cup moved :
            Chain(s) \in Providers /\ Pos(s) \in Link /\ Pos(s) \in Nat
  BY TokensTyped, Links DEF Token, Message, IsMove, NotRunYet, Chain, Pos
<1>2. \A q \in Providers : \A i \in Link :
         /\ ran[q][i] \in Nat /\ i \in Nat
         /\ ran'[q][i] = ran[q][i] \/ (q = p /\ i = k /\ ran'[q][i] = 1)
  BY <1>1 DEF TypeOK, Runs
<1>3. ran'[p][k] = ran[p][k] \/ \A s \in moved : Pos(s) # k
  OBVIOUS
<1>4. RunsOnce' BY <1>2 DEF RunsOnce
<1>5. \A s \in Tokens \ {t} : Chain(s) = p => Pos(s) # k
  BY DEF OneToken
<1>6. \A s \in moved : /\ Chain(s) = p
                       /\ Whole(s) => Whole(t)
                       /\ Pos(s) = k \/ (Whole(t) /\ Pos(s) = k + 1)
  BY DEF IsMove
<1> HIDE DEF p, k
<1>7. Whole(t) => /\ \A s \in Tokens \ {t} : Chain(s) = p => Pos(s) < k
                  /\ \A i \in Link : i > k => ran[p][i] = 0
  BY <1>1, <1>5 DEF Foremost, p, k
<1>8. OneToken'
  BY <1>1, <1>5, <1>6, <1>7 DEF OneToken, IsMove
<1>9. NotRunYet'
  <2> SUFFICES ASSUME NEW s \in Tokens' PROVE ran'[Chain(s)][Pos(s)] = 0
    BY DEF NotRunYet
  <2>1. CASE s \in Tokens \ {t} BY <1>1, <1>2, <1>5, <2>1 DEF NotRunYet
  <2>2. CASE s \in moved
    <3>1. CASE Pos(s) = k BY <1>1, <1>3, <1>6, <2>2, <3>1
    <3>2. CASE Whole(t) /\ Pos(s) = k + 1
      <4>1. Chain(s) = p /\ Pos(s) \in Link /\ Pos(s) > k /\ Pos(s) # k
        BY <1>1, <1>6, <2>2, <3>2
      <4> QED BY <1>1, <1>2, <1>7, <3>2, <4>1
    <3> QED BY <1>6, <2>2, <3>1, <3>2
  <2> QED BY <2>1, <2>2
<1>10. Foremost'
  <2> SUFFICES ASSUME NEW s \in Tokens', Whole(s)
               PROVE  /\ \A u \in Tokens' : Chain(u) = Chain(s)
                                               => Pos(u) <= Pos(s)
                      /\ \A i \in Link : i > Pos(s) => ran'[Chain(s)][i] = 0
    BY DEF Foremost
  <2>1. CASE s \in Tokens \ {t}
    <3>1. Chain(s) = p => k < Pos(s)
      BY <1>1, <1>5, <2>1 DEF Foremost, p, k
    <3>2. ASSUME NEW u \in Tokens', Chain(u) = Chain(s)
          PROVE  Pos(u) <= Pos(s)
      <4>1. CASE u \in Tokens BY <2>1, <4>1, <3>2 DEF Foremost
      <4>2. CASE u \in moved BY <1>1, <1>6, <3>1, <3>2, <4>2
      <4> QED BY <4>1, <4>2
    <3>3. ASSUME NEW i \in Link, i > Pos(s) PROVE ran'[Chain(s)][i] = 0
      BY <1>1, <1>2, <2>1, <3>1, <3>3 DEF Foremost
    <3> QED BY <3>2, <3>3
  <2>2. CASE s \in moved
    <3>1. Whole(t) /\ Chain(s) = p /\ k <= Pos(s) BY <1>1, <1>6, <2>2
    <3>2. ASSUME NEW u \in Tokens', Chain(u) = Chain(s)
          PROVE  Pos(u) <= Pos(s)
      <4>1. CASE u \in Tokens \ {t} BY <1>1, <1>7, <3>1, <3>2, <4>1
      <4>2. CASE u \in moved BY <2>2, <4>2 DEF IsMove
      <4> QED BY <4>1, <4>2
    <3>3. ASSUME NEW i \in Link, i > Pos(s) PROVE ran'[Chain(s)][i] = 0
      <4>1. i \in Nat /\ i > k /\ i # k BY <1>1, <2>2, <3>1, <3>3
      <4>2. ran'[p][i] = ran[p][i] /\ ran[p][i] = 0 BY <1>1, <1>2, <1>7, <3>1, <4>1
      <4> QED BY <3>1, <4>2
    <3> QED BY <3>2, <3>3
  <2> QED BY <2>1, <2>2
<1> QED BY <1>4, <1>8, <1>9, <1>10

\* No token comes and nothing is run.
LEMMA TokensStay ==
    ASSUME RunsOnce, OneToken, NotRunYet, Foremost, Tokens' \subseteq Tokens, ran' = ran
    PROVE  RunsOnce' /\ OneToken' /\ NotRunYet' /\ Foremost'
BY DEF RunsOnce, OneToken, NotRunYet, Foremost

\* What has run, has run.
LEMMA RanStays ==
    ASSUME TypeOK, NotRunYet, NEW t \in Tokens, ran' = ran \/ Runs(t)
    PROVE  \A p \in Providers : \A i \in Link : ran[p][i] = 1 => ran'[p][i] = 1
<1>1. Chain(t) \in Providers /\ Pos(t) \in Link /\ ran[Chain(t)][Pos(t)] = 0
  BY TokensTyped DEF Token, Message, NotRunYet, Chain, Pos
<1> QED BY <1>1 DEF TypeOK, Runs

\* A result is kept with its link, or comes from the link that runs.
LEMMA ResultWhenMoved ==
    ASSUME TypeOK, NotRunYet, ResultOfRun,
           NEW t \in Tokens, NEW moved, IsMove(t, moved),
           Tokens' \subseteq (Tokens \ {t}) \cup moved,
           ran' = ran \/ Runs(t),
           \A s \in moved : Successful(s) => \/ (Successful(t) /\ Pos(s) = Pos(t))
                                            \/ (Runs(t) /\ Pos(s) = Pos(t) + 1)
    PROVE  ResultOfRun'
<1> DEFINE p == Chain(t)  k == Pos(t)
<1>1. /\ p \in Providers /\ k \in Link /\ ran[p][k] = 0 /\ Link \subseteq Nat
      /\ \A s \in Tokens : Chain(s) \in Providers
  BY TokensTyped, Links DEF Token, Message, NotRunYet, Chain, Pos
<1>2. Runs(t) => ran'[p][k] = 1 BY <1>1 DEF TypeOK, Runs
<1> SUFFICES ASSUME NEW s \in Tokens', Successful(s), NEW i \in Link, i + 1 = Pos(s)
             PROVE  ran'[Chain(s)][i] = 1
  BY DEF ResultOfRun, Successful, Chain, Pos
<1>3. CASE s \in Tokens BY <1>1, <1>3, RanStays DEF ResultOfRun
<1>4. CASE s \in moved
  <2>1. Chain(s) = p BY <1>4 DEF IsMove
  <2>2. CASE Successful(t) /\ Pos(s) = k
    BY <1>1, <2>1, <2>2, RanStays DEF ResultOfRun
  <2>3. CASE Runs(t) /\ Pos(s) = k + 1
    <3>1. i \in Nat /\ k \in Nat /\ i + 1 = k + 1 BY <1>1, <2>3
    <3>2. i = k BY <3>1
    <3> QED BY <1>2, <2>1, <2>3, <3>2
  <2> QED BY <1>4, <2>2, <2>3
<1> QED BY <1>3, <1>4

\* A provider that ends has run its last task, and so have all once finalization starts.
LEMMA EndStays ==
    ASSUME TypeOK, NotRunYet, NEW t \in Tokens, ran' = ran \/ Runs(t),
           \A p \in Providers : status'[p] = "FINISHED" => ran[p][NTasks] = 1,
           fired' > 0 => \A p \in Providers : ran[p][NTasks] = 1
    PROVE  LastTaskBeforeEnd'
BY RanStays, Links DEF LastTaskBeforeEnd

\* What a process that passes the result r on sends.
Sends(w, r) ==
    LET m == job[w] IN
    IF ~m.linked \/ m.link = WaitLink THEN {}
    ELSE {Waiting(Route(m.provider, m.link + 1), Onward(m, r))}

\* The task a process works on is at an end, and its result passed on.
LEMMA SentTokens ==
    ASSUME TypeOK, NEW w \in Procs, Busy(w), NEW r \in BOOLEAN
    PROVE  /\ Taken(w) \in Tokens /\ job[w] \in Message
           /\ Sent(w, r) \in [Queues -> SUBSET Message]
           /\ Sends(w, r) \subseteq Token
           /\ \A s \in Sends(w, r) : /\ Chain(s) = Chain(Taken(w))
                                     /\ Whole(s) /\ Whole(Taken(w))
                                     /\ Pos(s) = Pos(Taken(w)) + 1
                                     /\ s.msg.result = r
           /\ \A s, u \in Sends(w, r) : s = u
           /\ \A q \in Queues : \A m \in Sent(w, r)[q] :
                 m \in queue[q] \/ Waiting(q, m) \in Sends(w, r)
<1> DEFINE m == job[w]
<1>1. Taken(w) \in Tokens BY TokenOf
<1>2. m \in Message BY DEF TypeOK, Busy
<1>3. CASE ~m.linked \/ m.link = WaitLink
  BY <1>1, <1>2, <1>3 DEF TypeOK, Sent, Sends
<1>4. CASE m.linked /\ m.link # WaitLink
  <2> DEFINE n == Onward(m, r)  d == Route(m.provider, m.link + 1)
  <2>1. /\ n \in Message /\ n.provider = m.provider /\ n.link = m.link + 1
        /\ n.linked = m.linked /\ n.result = r
    BY <1>2, <1>4, OnwardTyped
  <2>2. d \in Queues BY RouteTyped
  <2>3. Sends(w, r) = {Waiting(d, n)} BY <1>4 DEF Sends
  <2>4. Sent(w, r) = [queue EXCEPT ![d] = @ \cup {n}] BY <1>4 DEF Sent, Onward
  <2>5. Waiting(d, n) \in Token BY <2>1, <2>2 DEF Waiting, Token, Places
  <2>6. /\ Waiting(d, n).msg = n /\ Taken(w).msg = m BY DEF Waiting, Taken
  <2> HIDE DEF n, d
  <2>7. \A q \in Queues : \A x \in Sent(w, r)[q] : x \in queue[q] \/ (q = d /\ x = n)
    BY <2>2, <2>4 DEF TypeOK
  <2>8. Sent(w, r) \in [Queues -> SUBSET Message] BY <2>1, <2>2, <2>4 DEF TypeOK
  <2> QED BY <1>1, <1>2, <1>4, <2>1, <2>3, <2>5, <2>6, <2>7, <2>8 DEF Chain, Pos, Whole
<1> QED BY <1>3, <1>4

\* It moves the token of the process.
LEMMA WorkMoves ==
    ASSUME TypeOK, NEW w \in Procs, Busy(w), NEW r \in BOOLEAN,
           pc' = [pc EXCEPT ![w] = "releasing"], job' = job,
           queue' = Sent(w, r) \/ queue' = queue
    PROVE  /\ IsMove(Taken(w), Sends(w, r))
           /\ \A s \in Sends(w, r) : Pos(s) # Pos(Taken(w))
           /\ Tokens' \subseteq (Tokens \ {Taken(w)}) \cup Sends(w, r)
<1>1. Pos(Taken(w)) \in Nat
  BY SentTokens, Links DEF Pos, Taken, Message
<1>2. IsMove(Taken(w), Sends(w, r)) BY <1>1, SentTokens DEF IsMove
<1>3. \A s \in Sends(w, r) : Pos(s) # Pos(Taken(w)) BY <1>1, SentTokens
<1>4. ASSUME NEW s \in Tokens' PROVE s \in (Tokens \ {Taken(w)}) \cup Sends(w, r)
  <2>1. CASE \E v \in Procs : Busy(v)' /\ s = Taken(v)'
    <3>1. PICK v \in Procs : Busy(v)' /\ s = Taken(v)' BY <2>1
    <3>2. v # w /\ Busy(v) /\ s = Taken(v) BY <3>1 DEF TypeOK, Busy, Taken
    <3>3. s # Taken(w) BY <3>2 DEF Taken
    <3> QED BY <3>2, <3>3, TokenOf
  <2>2. CASE \E q \in Queues : \E m \in queue'[q] : s = Waiting(q, m)
    <3>1. PICK q \in Queues : \E m \in queue'[q] : s = Waiting(q, m) BY <2>2
    <3>2. PICK m \in queue'[q] : s = Waiting(q, m) BY <3>1
    <3>3. s # Taken(w) BY <3>2 DEF Waiting, Taken
    <3>4. m \in queue[q] \/ Waiting(q, m) \in Sends(w, r) BY <3>2, SentTokens
    <3> QED BY <3>2, <3>3, <3>4, TokenOf
  <2>3. s \in Tokens' <=> \/ \E v \in Procs : Busy(v)' /\ s = Taken(v)'
                          \/ \E q \in Queues : \E m \in queue'[q] : s = Waiting(q, m)
    BY DEF Tokens
  <2> QED BY <1>4, <2>1, <2>2, <2>3
<1> QED BY <1>2, <1>3, <1>4
-------------------------------------------------------------------------------
(* The actions *)

LEMMA ReceivePreserves ==
    ASSUME IInv, NEW w \in Procs, NEW q \in Queues, NEW m \in queue[q], Receive(w, q, m)
    PROVE  IInv'
<1> DEFINE t == Waiting(q, m)  u == [at |-> <<"process", w>>, msg |-> m]
<1> USE DEF IInv
<1>1. m \in Message /\ t \in Tokens BY TokenOf DEF TypeOK
<1>2. TypeOK' BY <1>1 DEF Receive, TypeOK, Message
<1>3. u \in Token BY <1>1 DEF Token, Places
<1>4. IsMove(t, {u})
  <2>1. Chain(u) = Chain(t) /\ Pos(u) = Pos(t) /\ (Whole(u) <=> Whole(t)) /\ Pos(u) \in Nat
    BY <1>1, Links DEF Waiting, Chain, Pos, Whole, Message
  <2> QED BY <1>3, <2>1 DEF IsMove
<1>5. Tokens' \subseteq (Tokens \ {t}) \cup {u}
  <2> SUFFICES ASSUME NEW s \in Tokens' PROVE s \in (Tokens \ {t}) \cup {u} OBVIOUS
  <2>1. \/ \E v \in Procs : Busy(v)' /\ s = Taken(v)'
        \/ \E r \in Queues : \E n \in queue'[r] : s = Waiting(r, n)
    BY DEF Tokens
  <2>2. CASE \E v \in Procs : Busy(v)' /\ s = Taken(v)'
    <3>1. PICK v \in Procs : Busy(v)' /\ s = Taken(v)' BY <2>2
    <3>2. CASE v = w BY <3>1, <3>2 DEF Receive, TypeOK, Taken
    <3>3. CASE v # w
      <4>1. Busy(v) /\ s = Taken(v) BY <3>1, <3>3 DEF Receive, TypeOK, Busy, Taken
      <4>2. s # t BY <4>1 DEF Taken, Waiting
      <4> QED BY <4>1, <4>2, TokenOf
    <3> QED BY <3>2, <3>3
  <2>3. CASE \E r \in Queues : \E n \in queue'[r] : s = Waiting(r, n)
    <3>1. PICK r \in Queues : \E n \in queue'[r] : s = Waiting(r, n) BY <2>3
    <3>2. PICK n \in queue'[r] : s = Waiting(r, n) BY <3>1
    <3>3. n \in queue[r] /\ ~(r = q /\ n = m) BY <3>2 DEF Receive, TypeOK
    <3>4. s # t BY <3>2, <3>3 DEF Waiting
    <3> QED BY <3>2, <3>3, <3>4, TokenOf
  <2> QED BY <2>1, <2>2, <2>3
<1>6. RunsOnce' /\ OneToken' /\ NotRunYet' /\ Foremost'
  BY <1>1, <1>4, <1>5, TokenMoves DEF Receive
<1>7. ResultOfRun'
  <2>1. Pos(u) = Pos(t) /\ (Successful(u) <=> Successful(t))
    BY DEF Waiting, Pos, Successful
  <2>2. \A s \in {u} : Successful(s) => Successful(t) /\ Pos(s) = Pos(t) BY <2>1
  <2> HIDE DEF t, u
  <2> QED BY <1>1, <1>4, <1>5, <2>2, ResultWhenMoved DEF Receive
<1>8. LastTaskBeforeEnd' BY <1>1 DEF LastTaskBeforeEnd, Receive, TypeOK
<1> QED BY <1>2, <1>6, <1>7, <1>8

LEMMA AcquireLockPreserves ==
    ASSUME IInv, NEW w \in Procs, AcquireLock(w)
    PROVE  IInv'
<1> USE DEF IInv
<1>1. job[w] \in Message /\ Taken(w) \in Tokens
  BY TokenOf DEF AcquireLock, TypeOK, Busy
<1>2. TypeOK'
  <2>1. Locks(job[w]) BY DEF AcquireLock, TypeOK
  <2> QED BY <1>1, <2>1 DEF AcquireLock, TypeOK, Keys
<1>3. Tokens' \subseteq Tokens
  BY DEF AcquireLock, TypeOK, Tokens, Busy, Taken
<1>4. RunsOnce' /\ OneToken' /\ NotRunYet' /\ Foremost'
  BY <1>3, TokensStay DEF AcquireLock
<1>5. ResultOfRun' /\ LastTaskBeforeEnd'
  BY <1>3 DEF AcquireLock, ResultOfRun, LastTaskBeforeEnd
<1> QED BY <1>2, <1>4, <1>5

LEMMA RequeuePreserves ==
    ASSUME IInv, NEW w \in Procs, Requeue(w)
    PROVE  IInv'
<1> DEFINE n == [job[w] EXCEPT !.linked = FALSE]
           t == Taken(w)  u == Waiting("celery", n)  moved == Sends(w, FALSE) \cup {u}
<1> USE DEF IInv
<1>0. queue' = [Sent(w, FALSE) EXCEPT !["celery"] = @ \cup {n}] BY DEF Requeue
<1>1. /\ Busy(w) /\ job[w] \in Message /\ n \in Message /\ n.provider = job[w].provider
      /\ n.link = job[w].link /\ n.linked = FALSE /\ n.result = job[w].result
  BY UnlinkedTyped DEF Requeue, Busy, TypeOK
<1> HIDE DEF n
<1>2. TypeOK'
  <2>1. Sent(w, FALSE) \in [Queues -> SUBSET Message] BY <1>1, SentTokens
  <2>2. queue' \in [Queues -> SUBSET Message] BY <1>0, <1>1, <2>1 DEF Queues
  <2> QED BY <1>1, <2>2 DEF Requeue, TypeOK
<1>3. /\ Chain(u) = Chain(t) /\ Pos(u) = Pos(t) /\ ~Whole(u) /\ u \in Token
      /\ Pos(t) \in Nat /\ (Successful(u) <=> Successful(t))
  <2>2. Pos(t) \in Nat BY <1>1, Links DEF Pos, Taken, Message
  <2>3. /\ Chain(u) = Chain(t) /\ Pos(u) = Pos(t) /\ ~Whole(u)
        /\ Successful(u) <=> Successful(t)
    BY <1>1 DEF Waiting, Taken, Chain, Pos, Whole, Successful
  <2>4. u \in Token BY <1>1 DEF Waiting, Token, Places, Queues
  <2> QED BY <2>2, <2>3, <2>4
<1> HIDE DEF u
<1>4. IsMove(t, moved)
  <2> HIDE DEF moved
  <2>1. /\ moved \subseteq Token
        /\ \A s \in moved : \/ s = u
                            \/ /\ Chain(s) = Chain(t) /\ Whole(s) /\ Whole(t)
                               /\ Pos(s) = Pos(t) + 1
    BY <1>1, <1>3, SentTokens DEF moved
  <2>2. \A s, v \in moved : s # u /\ v # u => s = v
    BY <1>1, SentTokens DEF moved
  <2> QED BY <1>3, <2>1, <2>2 DEF IsMove
<1>5. Tokens' \subseteq (Tokens \ {t}) \cup moved
  <2> SUFFICES ASSUME NEW s \in Tokens' PROVE s \in (Tokens \ {t}) \cup moved OBVIOUS
  <2>1. \/ \E v \in Procs : Busy(v)' /\ s = Taken(v)'
        \/ \E r \in Queues : \E x \in queue'[r] : s = Waiting(r, x)
    BY DEF Tokens
  <2>2. CASE \E v \in Procs : Busy(v)' /\ s = Taken(v)'
    <3>1. PICK v \in Procs : Busy(v)' /\ s = Taken(v)' BY <2>2
    <3>2. v # w /\ Busy(v) /\ s = Taken(v) BY <3>1 DEF Requeue, TypeOK, Busy, Taken
    <3>3. s # t BY <3>2 DEF Taken
    <3> QED BY <3>2, <3>3, TokenOf
  <2>3. CASE \E r \in Queues : \E x \in queue'[r] : s = Waiting(r, x)
    <3>1. PICK r \in Queues : \E x \in queue'[r] : s = Waiting(r, x) BY <2>3
    <3>2. PICK x \in queue'[r] : s = Waiting(r, x) BY <3>1
    <3>3. x \in Sent(w, FALSE)[r] \/ s = u
      <4>1. Sent(w, FALSE) \in [Queues -> SUBSET Message] BY <1>1, SentTokens
      <4>2. x \in Sent(w, FALSE)[r] \/ (r = "celery" /\ x = n)
        BY <1>0, <3>2, <4>1 DEF Queues
      <4> QED BY <3>2, <4>2 DEF u
    <3>4. x \in queue[r] \/ s \in moved BY <1>1, <3>2, <3>3, SentTokens
    <3>5. s # t BY <3>2 DEF Waiting, Taken
    <3> QED BY <3>2, <3>4, <3>5, TokenOf
  <2> QED BY <2>1, <2>2, <2>3
<1>6. RunsOnce' /\ OneToken' /\ NotRunYet' /\ Foremost'
  BY <1>1, <1>4, <1>5, SentTokens, TokenMoves DEF Requeue
<1>7. ResultOfRun'
  <2>1. \A s \in Sends(w, FALSE) : ~Successful(s) BY <1>1, SentTokens DEF Successful
  <2>2. \A s \in moved : Successful(s) => Successful(t) /\ Pos(s) = Pos(t)
    BY <1>3, <2>1
  <2> HIDE DEF moved, t
  <2>3. t \in Tokens BY <1>1, SentTokens DEF t
  <2> QED BY <1>4, <1>5, <2>2, <2>3, ResultWhenMoved DEF Requeue
<1>8. LastTaskBeforeEnd' BY DEF LastTaskBeforeEnd, Requeue
<1> QED BY <1>2, <1>6, <1>7, <1>8

\* The task is run, whether or not its result is passed on.
LEMMA RunPreserves ==
    ASSUME IInv, NEW w \in Procs, pc[w] = "running",
           pc' = [pc EXCEPT ![w] = "releasing"], job' = job, lock' = lock, Ran(w),
           queue' = Sent(w, TRUE) \/ queue' = queue,
           status' \in [Providers -> {"RUNNING", "FINISHED"}], fired' \in Nat,
           \A p \in Providers : status'[p] = "FINISHED" => ran[p][NTasks] = 1,
           fired' > 0 => \A p \in Providers : ran[p][NTasks] = 1
    PROVE  IInv'
<1> DEFINE t == Taken(w)  m == job[w]
<1> USE DEF IInv
<1>1. Busy(w) /\ m \in Message /\ t \in Tokens
  BY SentTokens DEF Busy, TypeOK
<1>2. ran' \in [Providers -> [Link -> Nat]] BY <1>1 DEF Ran, TypeOK, Message
<1>3. /\ Sent(w, TRUE) \in [Queues -> SUBSET Message]
      /\ \A s \in Sends(w, TRUE) : Chain(s) = Chain(t) /\ Whole(s) /\ Pos(s) = Pos(t) + 1
  BY <1>1, SentTokens
<1>4. TypeOK'
  <2>1. queue' \in [Queues -> SUBSET Message] BY <1>3 DEF TypeOK
  <2> QED BY <1>1, <1>2, <2>1 DEF TypeOK
<1>5. Runs(t) BY DEF Ran, Runs, Taken, Chain, Pos
<1>6. /\ IsMove(t, Sends(w, TRUE)) /\ \A s \in Sends(w, TRUE) : Pos(s) # Pos(t)
      /\ Tokens' \subseteq (Tokens \ {t}) \cup Sends(w, TRUE)
  BY <1>1, WorkMoves
<1>7. RunsOnce' /\ OneToken' /\ NotRunYet' /\ Foremost'
  BY <1>1, <1>5, <1>6, TokenMoves
<1>8. ResultOfRun'
  <2>1. \A s \in Sends(w, TRUE) : Pos(s) = Pos(t) + 1 BY <1>1, SentTokens
  <2> HIDE DEF t, m
  <2>2. t \in Tokens /\ TypeOK /\ NotRunYet /\ ResultOfRun BY <1>1
  <2>3. \A s \in Sends(w, TRUE) :
           Successful(s) => \/ (Successful(t) /\ Pos(s) = Pos(t))
                            \/ (Runs(t) /\ Pos(s) = Pos(t) + 1)
    BY <1>5, <2>1
  <2>4. ran' = ran \/ Runs(t) BY <1>5
  <2> QED BY <1>6, <2>2, <2>3, <2>4, ResultWhenMoved
<1>9. LastTaskBeforeEnd' BY <1>1, <1>5, EndStays
<1> QED BY <1>4, <1>7, <1>8, <1>9

LEMMA AfterReturnPreserves ==
    ASSUME IInv, NEW w \in Procs, AfterReturn(w)
    PROVE  IInv'
<1> USE DEF IInv
<1>1. TypeOK' BY DEF AfterReturn, TypeOK
<1>2. Tokens' \subseteq Tokens BY DEF AfterReturn, TypeOK, Tokens, Busy, Taken
<1>3. RunsOnce' /\ OneToken' /\ NotRunYet' /\ Foremost'
  BY <1>2, TokensStay DEF AfterReturn
<1>4. ResultOfRun' /\ LastTaskBeforeEnd'
  BY <1>2 DEF AfterReturn, ResultOfRun, LastTaskBeforeEnd
<1> QED BY <1>1, <1>3, <1>4

\* A key expires, or nothing happens.
LEMMA ExpirePreserves ==
    ASSUME IInv, lock' \subseteq lock, UNCHANGED <<queue, pc, job, status, ran, fired>>
    PROVE  IInv'
<1> USE DEF IInv
<1>1. TypeOK' BY DEF TypeOK
<1>2. Tokens' = Tokens BY DEF Tokens, Busy, Taken
<1>3. RunsOnce' /\ OneToken' /\ NotRunYet' /\ Foremost' BY <1>2, TokensStay
<1>4. ResultOfRun' /\ LastTaskBeforeEnd'
  BY <1>2 DEF ResultOfRun, LastTaskBeforeEnd
<1> QED BY <1>1, <1>3, <1>4

-------------------------------------------------------------------------------
(* The theorems *)

LEMMA InitIInv == ASSUME Init PROVE IInv
<1>1. \A p \in Providers : First(p) \in Message
  <2>1. 1 \in Link BY NTasksAssumption DEF Link, WaitLink
  <2> QED BY <2>1 DEF First, Message
<1> USE DEF Init
<1>2. TypeOK BY <1>1 DEF TypeOK, Queues
<1>3. \A t \in Tokens : /\ t = Waiting("host", First(Chain(t)))
                        /\ Chain(t) \in Providers /\ Pos(t) = 1 /\ Whole(t)
  BY TokenOf DEF Queues, Busy, Waiting, First, Chain, Pos, Whole
<1>4. 1 \in Link /\ Link \subseteq Nat BY Links, NTasksAssumption DEF Link, WaitLink
<1>5. RunsOnce BY DEF RunsOnce
<1>6. OneToken BY <1>3 DEF OneToken
<1>7. NotRunYet /\ Foremost BY <1>3, <1>4 DEF NotRunYet, Foremost
<1>8. ResultOfRun BY <1>3 DEF ResultOfRun, Successful, Waiting, First
<1>9. LastTaskBeforeEnd BY DEF LastTaskBeforeEnd
<1> QED BY <1>2, <1>5, <1>6, <1>7, <1>8, <1>9 DEF IInv

LEMMA StepIInv == ASSUME IInv, [Next]_vars PROVE IInv'
<1>1. ASSUME NEW w \in Procs, NEW q \in Queues, NEW m \in queue[q], Receive(w, q, m)
      PROVE  IInv'
  BY <1>1, ReceivePreserves
<1>2. ASSUME NEW w \in Procs, \/ RunTask(w) \/ FinalizeProvider(w) \/ FinalizeRaises(w)
                              \/ WaitForProviders(w)
      PROVE  IInv'
  <2>1. /\ pc[w] = "running" /\ job[w] \in Message /\ Taken(w) \in Tokens
        /\ status \in [Providers -> {"RUNNING", "FINISHED"}] /\ fired \in Nat
        /\ LastTaskBeforeEnd
    BY <1>2, TokenOf DEF RunTask, FinalizeProvider, FinalizeRaises, WaitForProviders,
                         IInv, TypeOK, Busy
  <2>2. CASE RunTask(w) BY <2>1, <2>2, RunPreserves DEF RunTask, LastTaskBeforeEnd
  <2>3. CASE FinalizeProvider(w)
    <3>1. status' \in [Providers -> {"RUNNING", "FINISHED"}]
      BY <2>1, <2>3 DEF FinalizeProvider, Message
    <3>2. ran[job[w].provider][NTasks] = 1
      BY <2>1, <2>3, Links DEF FinalizeProvider, IInv, ResultOfRun, Successful, Taken,
                               Chain, Pos, Message
    <3>3. \A p \in Providers : status'[p] = "FINISHED" => ran[p][NTasks] = 1
      BY <2>1, <2>3, <3>2 DEF FinalizeProvider, LastTaskBeforeEnd
    <3> QED BY <2>1, <2>3, <3>1, <3>3, RunPreserves DEF FinalizeProvider, LastTaskBeforeEnd
  <2>4. CASE FinalizeRaises(w)
    BY <2>1, <2>4, RunPreserves DEF FinalizeRaises, LastTaskBeforeEnd
  <2>5. CASE WaitForProviders(w)
    <3>1. fired' \in Nat BY <2>1, <2>5 DEF WaitForProviders
    <3>2. fired' > 0 => \A p \in Providers : ran[p][NTasks] = 1
      BY <2>1, <2>5 DEF WaitForProviders, LastTaskBeforeEnd
    <3> QED BY <2>1, <2>5, <3>1, <3>2, RunPreserves DEF WaitForProviders, LastTaskBeforeEnd
  <2> QED BY <1>2, <2>2, <2>3, <2>4, <2>5
<1>3. ASSUME NEW w \in Procs, AcquireLock(w) \/ Requeue(w) \/ AfterReturn(w)
      PROVE  IInv'
  BY <1>3, AcquireLockPreserves, RequeuePreserves, AfterReturnPreserves
<1>4. CASE (\E k \in lock : Expire(k)) \/ UNCHANGED vars
  BY <1>4, ExpirePreserves DEF Expire, vars
<1> QED BY <1>1, <1>2, <1>3, <1>4 DEF Next, Work

LEMMA Inductive == Spec => []IInv
BY InitIInv, StepIInv, PTL DEF Spec

\* The queues hold messages of the run, and the cache keys of its tasks.
THEOREM TypeCorrect == Spec => []TypeOK
<1>1. IInv => TypeOK BY DEF IInv
<1> QED BY <1>1, Inductive, PTL

\* No body is run twice, for any number of tasks and processes: a task that is queued
\* again leaves its chain to the one copy that goes on, and that copy never comes back.
THEOREM OnceOnly == Spec => []RunsOnce
<1>1. IInv => RunsOnce BY DEF IInv
<1> QED BY <1>1, Inductive, PTL

\* A provider is FINISHED, and finalization of the run starts, only after the last tasks
\* have run: a result is only ever handed on by a link whose body has run.
THEOREM LastTaskFirst == Spec => []LastTaskBeforeEnd
<1>1. IInv => LastTaskBeforeEnd BY DEF IInv
<1> QED BY <1>1, Inductive, PTL
===============================================================================
