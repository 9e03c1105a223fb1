---------------------------- MODULE ProxyProofs -----------------------------
(***************************************************************************)
(* One connection of an outbound proxy, for any amount of data: the timer  *)
(* that watches the relay of freedom, and the stream that Read of a Mieru  *)
(* session hands out.  The two have nothing to do with each other.         *)
(***************************************************************************)
EXTENDS Flows, Relays, Sequences, SequenceTheorems, TLAPS

-----------------------------------------------------------------------------
(* Relay. *)

TaskRec == [on : BOOLEAN, pc : {"idle", "armed", "check", "execute", "finish", "rearm"}]

RType ==
  /\ task \in [R!Tasks -> TaskRec]
  /\ copier \in [R!Copiers -> {"copy", "swap", "update", "start", "starting", "set", "done"}]
  /\ checkTask \in R!Tasks \cup {R!Nil}
  /\ token \in BOOLEAN /\ onTimeout \in BOOLEAN
  /\ lull \in {"no", "begun", "over"}

\* A task of SetTimeout does nothing before the copy of its number has called SetTimeout.
RUnset == \A g \in R!Copiers : copier[g] \in {"copy", "swap"} => task[g].pc = "idle"

\* While both copies last and the timer has not expired, the first task runs; data that it
\* has not counted left a token, unless the task is about to begin the next interval.
RCounted ==
  proxy = "freedom" /\ onTimeout /\ R!BothCopied =>
     /\ task[0].on
     /\ lull = "no" => token \/ task[0].pc = "rearm"
     /\ lull = "begun" => task[0].pc = "armed"

RInv == RType /\ RUnset /\ RCounted /\ R!NoEarlyTimeout

\* Periodic.Close of a task.
LEMMA CloseTask ==
  ASSUME RType, NEW t \in [R!Tasks -> TaskRec],
         NEW k \in R!Tasks
  PROVE  /\ R!Close(t, k) \in [R!Tasks -> TaskRec]
         /\ \A j \in R!Tasks : t[j].pc = "idle" => R!Close(t, k)[j].pc = "idle"
  BY DEF R!Close, TaskRec

LEMMA FinishTask ==
  ASSUME RType, NEW t \in [R!Tasks -> TaskRec],
         R!Finish(t)
  PROVE  /\ task' \in [R!Tasks -> TaskRec]
         /\ \A j \in R!Tasks : t[j].pc = "idle" => task'[j].pc = "idle"
         /\ onTimeout' = FALSE /\ checkTask' = R!Nil
  <1>1. CASE checkTask = R!Nil
    BY <1>1 DEF R!Finish
  <1>2. CASE checkTask # R!Nil
    BY <1>2, CloseTask DEF R!Finish, RType
  <1> QED
    BY <1>1, <1>2

LEMMA RelayStep == RInv /\ [R!Next]_(R!vars) => RInv'
  <1> SUFFICES ASSUME RInv, [R!Next]_(R!vars) PROVE RInv'
    OBVIOUS
  <1>0. RType /\ RUnset /\ RCounted /\ R!NoEarlyTimeout
    BY DEF RInv
  <1> USE DEF R!Copiers, R!Tasks, R!Nil, TaskRec
  <1>1. ASSUME NEW k \in R!Tasks, R!HasClosed(k) PROVE RInv'
    <2> DEFINE p == IF task[k].on THEN "execute" ELSE "idle"
    <2>1. /\ task[k].pc = "check" /\ task' = [task EXCEPT ![k].pc = p]
          /\ copier' = [g \in R!Copiers |->
                      IF g = k /\ ~task[k].on /\ copier[g] = "starting" THEN "set" ELSE copier[g]]
          /\ UNCHANGED <<proxy, token, onTimeout, checkTask, lull, early>>
      BY <1>1 DEF R!HasClosed, R!ghosts
    <2>2. p \in {"execute", "idle"}
      OBVIOUS
    <2> HIDE DEF p
    <2>3. /\ RType'
          /\ \A j \in R!Tasks : task'[j].on = task[j].on /\ (j # k => task'[j].pc = task[j].pc)
          /\ \A g \in R!Copiers : copier'[g] \in {"copy", "swap"} <=> copier[g] \in {"copy", "swap"}
      BY <1>0, <2>1, <2>2 DEF RType
    <2>4. RUnset' /\ RCounted' /\ R!NoEarlyTimeout'
      BY <1>0, <2>1, <2>3 DEF RUnset, RCounted, R!BothCopied, R!NoEarlyTimeout
    <2> QED
      BY <2>3, <2>4 DEF RInv
  <1>2. ASSUME NEW k \in R!Tasks, R!Check(k) PROVE RInv'
    <2>1. /\ task[k].pc = "execute"
          /\ UNCHANGED <<proxy, copier, lull, onTimeout, checkTask>>
      BY <1>2 DEF R!Check
    <2>2. PICK p \in {"rearm", "finish"} : task' = [task EXCEPT ![k].pc = p]
      BY <1>2 DEF R!Check, R!GiveUp
    <2>3. /\ task' \in [R!Tasks -> TaskRec]
          /\ task'[k].pc = p
          /\ \A j \in R!Tasks : task'[j].on = task[j].on /\ (j # k => task'[j].pc = task[j].pc)
      BY <1>0, <2>2 DEF RType
    <2>4. RUnset'
      BY <1>0, <2>1, <2>3 DEF RUnset
    <2>5. CASE token /\ token' = FALSE /\ task'[k].pc = "rearm" /\ UNCHANGED early
      <3>1. RType' /\ R!NoEarlyTimeout'
        BY <1>0, <2>1, <2>3, <2>5 DEF RType, R!NoEarlyTimeout
      <3>2. RCounted'
        BY <1>0, <2>1, <2>3, <2>5 DEF RUnset, RCounted, R!BothCopied
      <3> QED
        BY <2>4, <3>1, <3>2 DEF RInv
    <2>6. CASE ~token /\ R!GiveUp(k) /\ UNCHANGED token
      <3>1. RType'
        BY <1>0, <2>1, <2>3, <2>6 DEF RType
      <3>2. proxy = "freedom" /\ onTimeout /\ R!BothCopied => lull = "over"
        BY <1>0, <2>1, <2>6 DEF RType, RUnset, RCounted, R!BothCopied
      <3>3. R!NoEarlyTimeout'
        BY <1>0, <2>1, <2>6, <3>2 DEF R!GiveUp, R!NoEarlyTimeout
      <3>4. RCounted'
        BY <1>0, <2>1, <2>3, <3>2 DEF RCounted, R!BothCopied
      <3> QED
        BY <2>4, <3>1, <3>3, <3>4 DEF RInv
    <2> QED
      <3>1. \/ token /\ token' = FALSE /\ task' = [task EXCEPT ![k].pc = "rearm"] /\ UNCHANGED early
            \/ ~token /\ R!GiveUp(k) /\ UNCHANGED token
        BY <1>2 DEF R!Check
      <3>2. task' = [task EXCEPT ![k].pc = "rearm"] => task'[k].pc = "rearm"
        BY <1>0 DEF RType
      <3> QED
        BY <2>5, <2>6, <3>1, <3>2
  <1>10. ASSUME NEW k \in R!Tasks, R!Expire(k) PROVE RInv'
    <2> DEFINE t == [task EXCEPT ![k].pc = "rearm"]
    <2>1. /\ task[k].pc = "finish" /\ R!Finish(t)
          /\ UNCHANGED <<proxy, copier, lull, token, early>>
      BY <1>10 DEF R!Expire
    <2>2. /\ t \in [R!Tasks -> TaskRec]
          /\ \A j \in R!Tasks : t[j].on = task[j].on /\ (j # k => t[j].pc = task[j].pc)
      BY <1>0 DEF RType
    <2> HIDE DEF t
    <2>3. /\ task' \in [R!Tasks -> TaskRec]
          /\ \A j \in R!Tasks : t[j].pc = "idle" => task'[j].pc = "idle"
          /\ onTimeout' = FALSE /\ checkTask' = R!Nil
      BY <1>0, <2>1, <2>2, FinishTask
    <2>4. RType' /\ RCounted' /\ R!NoEarlyTimeout'
      BY <1>0, <2>1, <2>3 DEF RType, RCounted, R!NoEarlyTimeout
    <2>5. RUnset'
      BY <1>0, <2>1, <2>2, <2>3 DEF RUnset
    <2> QED
      BY <2>4, <2>5 DEF RInv
  <1>3. ASSUME NEW k \in R!Tasks, R!Rearm(k) PROVE RInv'
    <2> DEFINE p == IF task[k].on THEN "armed" ELSE "idle"
    <2>1. /\ task[k].pc = "rearm" /\ task' = [task EXCEPT ![k].pc = p]
          /\ copier' = [g \in R!Copiers |-> IF g = k /\ copier[g] = "starting" THEN "set" ELSE copier[g]]
          /\ lull' = IF k = 0 /\ task[k].on /\ lull = "no" THEN "begun" ELSE lull
          /\ UNCHANGED <<proxy, token, onTimeout, checkTask, early>>
      BY <1>3 DEF R!Rearm
    <2>2. p \in {"armed", "idle"} /\ (task[k].on => p = "armed")
      OBVIOUS
    <2> HIDE DEF p
    <2>3. /\ RType'
          /\ \A j \in R!Tasks : task'[j].on = task[j].on /\ (j # k => task'[j].pc = task[j].pc)
          /\ task'[k].pc = p
          /\ \A g \in R!Copiers : copier'[g] \in {"copy", "swap"} <=> copier[g] \in {"copy", "swap"}
      BY <1>0, <2>1, <2>2 DEF RType
    <2>4. RUnset' /\ R!NoEarlyTimeout'
      BY <1>0, <2>1, <2>3 DEF RUnset, R!NoEarlyTimeout
    <2>5. RCounted'
      BY <1>0, <2>1, <2>2, <2>3 DEF RUnset, RCounted, R!BothCopied, RType
    <2> QED
      BY <2>3, <2>4, <2>5 DEF RInv
  <1>4. ASSUME NEW k \in R!Tasks, R!Fire(k) PROVE RInv'
    <2>1. /\ task[k].pc = "armed" /\ task' = [task EXCEPT ![k].pc = "check"]
          /\ lull' = IF k = 0 /\ lull = "begun" THEN "over" ELSE lull
          /\ UNCHANGED <<proxy, token, onTimeout, checkTask, early, copier>>
      BY <1>4 DEF R!Fire
    <2>2. /\ RType'
          /\ \A j \in R!Tasks : task'[j].on = task[j].on /\ (j # k => task'[j].pc = task[j].pc)
      BY <1>0, <2>1 DEF RType
    <2>3. RUnset' /\ RCounted' /\ R!NoEarlyTimeout'
      BY <1>0, <2>1, <2>2 DEF RUnset, RCounted, R!BothCopied, R!NoEarlyTimeout
    <2> QED
      BY <2>2, <2>3 DEF RInv
  <1>5. ASSUME NEW g \in R!Copiers, R!Swap(g) PROVE RInv'
    <2>1. copier[g] = "swap" /\ lull' = "over" /\ UNCHANGED <<proxy, token, early>>
      BY <1>5 DEF R!Swap
    <2>2. PICK p \in {"set", "update"} :
             /\ copier' = [copier EXCEPT ![g] = p]
             /\ task' \in [R!Tasks -> TaskRec]
             /\ \A j \in R!Tasks : task[j].pc = "idle" => task'[j].pc = "idle"
             /\ checkTask' \in R!Tasks \cup {R!Nil} /\ onTimeout' \in BOOLEAN
      <3>1. CASE zero[g]
        <4>1. R!Finish(task) /\ copier' = [copier EXCEPT ![g] = "set"]
          BY <1>5, <3>1 DEF R!Swap
        <4>2. /\ task' \in [R!Tasks -> TaskRec]
              /\ \A j \in R!Tasks : task[j].pc = "idle" => task'[j].pc = "idle"
              /\ onTimeout' = FALSE /\ checkTask' = R!Nil
          BY <1>0, <4>1, FinishTask DEF RType
        <4>3. onTimeout' \in BOOLEAN
          BY <4>1 DEF R!Finish
        <4> QED
          BY <4>1, <4>2, <4>3
      <3>2. CASE ~zero[g] /\ checkTask = R!Nil
        BY <1>0, <1>5, <3>2 DEF R!Swap, RType
      <3>3. CASE ~zero[g] /\ checkTask # R!Nil
        <4>1. task' = R!Close(task, checkTask) /\ copier' = [copier EXCEPT ![g] = "update"] /\ checkTask' = g
              /\ UNCHANGED onTimeout
          BY <1>5, <3>3 DEF R!Swap
        <4> QED
          BY <1>0, <3>3, <4>1, CloseTask DEF RType
      <3> QED
        BY <3>1, <3>2, <3>3
    <2>3. RType' /\ RUnset' /\ R!NoEarlyTimeout'
      BY <1>0, <2>1, <2>2 DEF RType, RUnset, R!NoEarlyTimeout
    <2>4. RCounted'
      BY <1>0, <2>2 DEF RType, RCounted, R!BothCopied
    <2> QED
      BY <2>3, <2>4 DEF RInv
  <1>6. ASSUME NEW g \in R!Copiers, R!SetToken(g) \/ R!StartTask(g) \/ R!Return(g) PROVE RInv'
    <2>1. /\ copier[g] \notin {"copy", "swap"}
          /\ \E p \in {"start", "starting", "done"} : copier' = [copier EXCEPT ![g] = p]
          /\ \/ UNCHANGED task
             \/ task' = [task EXCEPT ![g] = [on |-> TRUE, pc |-> "check"]]
          /\ lull' \in {lull, "no", "over"} /\ token' \in BOOLEAN
          /\ UNCHANGED <<proxy, onTimeout, checkTask, early>>
      BY <1>0, <1>6 DEF R!SetToken, R!StartTask, R!Return, R!Update, R!Activity, R!ghosts, RType
    <2>2. PICK p \in {"start", "starting", "done"} : copier' = [copier EXCEPT ![g] = p]
      BY <2>1
    <2>3. /\ task' \in [R!Tasks -> TaskRec]
          /\ \A j \in R!Tasks : j # g => task'[j] = task[j]
      <3>1. CASE UNCHANGED task
        BY <1>0, <3>1 DEF RType
      <3>2. CASE task' = [task EXCEPT ![g] = [on |-> TRUE, pc |-> "check"]]
        BY <1>0, <3>2 DEF RType
      <3> QED
        BY <2>1, <3>1, <3>2
    <2>4. RType' /\ R!NoEarlyTimeout'
      BY <1>0, <2>1, <2>2, <2>3 DEF RType, R!NoEarlyTimeout
    <2>5. RUnset' /\ RCounted'
      BY <1>0, <2>2, <2>3 DEF RType, RUnset, RCounted, R!BothCopied
    <2> QED
      BY <2>4, <2>5 DEF RInv
  <1>7. ASSUME NEW g \in R!Copiers, R!Copy(g) PROVE RInv'
    <2>1. /\ proxy = "freedom" => token' = TRUE
          /\ token' \in BOOLEAN /\ lull' \in {"no", "over"}
          /\ R!BothCopied => lull' = "no"
          /\ UNCHANGED <<proxy, onTimeout, checkTask, task, copier, early>>
      BY <1>0, <1>7 DEF R!Copy, R!Update, R!Activity, RType
    <2> QED
      BY <1>0, <2>1 DEF RInv, RType, RUnset, RCounted, R!BothCopied, R!NoEarlyTimeout
  <1>8. ASSUME NEW g \in R!Copiers, NEW r, R!CopyEnd(g, r) PROVE RInv'
    <2>1. /\ copier[g] = "copy" /\ copier' = [copier EXCEPT ![g] = "swap"]
          /\ UNCHANGED <<proxy, onTimeout, checkTask, task, token, lull, early>>
      BY <1>8 DEF R!CopyEnd, R!ghosts
    <2> QED
      BY <1>0, <2>1 DEF RInv, RType, RUnset, RCounted, R!BothCopied, R!NoEarlyTimeout
  <1>9. ASSUME R!Run \/ R!Dispatched \/ UNCHANGED R!vars PROVE RInv'
    <2>1. UNCHANGED <<proxy, onTimeout, checkTask, task, token, lull, early, copier>>
      BY <1>9 DEF R!Run, R!Dispatched, R!vars, R!ghosts
    <2> QED
      BY <1>0, <2>1 DEF RInv, RType, RUnset, RCounted, R!BothCopied, R!NoEarlyTimeout
  <1> QED
    BY <1>1, <1>2, <1>3, <1>4, <1>5, <1>6, <1>7, <1>8, <1>9, <1>10 DEF R!Next, R!Round, R!SetTimeout

\* A check of freedom's timer finds the connection idle, and goes to finish, only after an
\* interval in which nothing was copied, up to the first SetTimeout, for any amount of data
\* that arrives before, during or after any round of the task.
THEOREM RelayNotEarly == R!Spec => []NoEarlyTimeout
  <1>1. R!Init => RInv
    <2> SUFFICES ASSUME R!Init PROVE RInv
      OBVIOUS
    <2> USE DEF R!Init, R!Copiers, R!Tasks, R!Nil, TaskRec
    <2>1. RType
      BY DEF RType
    <2>2. task[0].on /\ task[0].pc = "armed" /\ task[1].pc = "idle" /\ task[2].pc = "idle"
      <3>1. 0 \in R!Tasks /\ 1 \in R!Tasks /\ 2 \in R!Tasks
        OBVIOUS
      <3>2. /\ task[0] = [on |-> 0 = 0, pc |-> IF 0 = 0 THEN "armed" ELSE "idle"]
            /\ task[1] = [on |-> 1 = 0, pc |-> IF 1 = 0 THEN "armed" ELSE "idle"]
            /\ task[2] = [on |-> 2 = 0, pc |-> IF 2 = 0 THEN "armed" ELSE "idle"]
        BY <3>1, Zenon
      <3>3. task[0].on
        BY <3>2, Zenon
      <3> QED
        BY <3>2, <3>3
    <2>3. RUnset /\ RCounted /\ R!NoEarlyTimeout
      BY <2>2 DEF RUnset, RCounted, R!NoEarlyTimeout
    <2> QED
      BY <2>1, <2>3 DEF RInv
  <1>2. RInv => R!NoEarlyTimeout
    BY DEF RInv
  <1> QED
    BY <1>1, <1>2, RelayStep, PTL DEF R!Spec, NoEarlyTimeout

-----------------------------------------------------------------------------
(* MieruSession.  Of the segments that have not been read it is said which *)
(* bytes they hold: all the bytes between the last one that Read has seen  *)
(* and the last one that was sent, in their order.  A segment may be empty.*)

Seg == [kind : {"head", "data", "other"}, payload : Seq(Nat)]

MType ==
  /\ wire \in Seq(Seg) /\ recvQueue \in Seq(Seg)
  /\ sent.bytes \in Nat
  /\ unreadBuf \in Seq(Nat) /\ out \in Seq(Nat)

Seen == <<0>> \o out \o unreadBuf
Unread == recvQueue \o wire
LastOf(s) == s[Len(s)]

Ascends(s) == \A i, j \in 1..Len(s) : i < j => s[i] < s[j]

\* Only before members of hs is something missing.
Gaps(s, hs) == \A i \in 1..Len(s) - 1 : s[i] + 1 = s[i + 1] \/ s[i + 1] \in hs

Consecutive(p) == \A m \in 1..Len(p) : p[m] = p[1] + m - 1

\* The segments q hold bytes after number e up to number top,
Within(q, e, top) ==
  \A j \in 1..Len(q) :
     /\ Consecutive(q[j].payload)
     /\ \A m \in 1..Len(q[j].payload) : e < q[j].payload[m] /\ q[j].payload[m] <= top

\* in their order,
InOrder(q) ==
  \A j, l \in 1..Len(q) : j < l =>
     \A m \in 1..Len(q[j].payload), n \in 1..Len(q[l].payload) : q[j].payload[m] < q[l].payload[n]

\* and all of them;
Carries(seg, b) == \E m \in 1..Len(seg.payload) : seg.payload[m] = b
Whole(q, e, top) ==
  \A b \in Nat : e < b /\ b <= top => \E j \in 1..Len(q) : Carries(q[j], b)

\* what looks like a head begins with a member of hs.
Marked(seg, hs) == seg.kind = "head" => seg.payload # <<>> /\ seg.payload[1] \in hs

MSeen == Ascends(Seen) /\ Gaps(Seen, heads)

MUnread ==
  /\ LastOf(Seen) <= sent.bytes
  /\ Within(Unread, LastOf(Seen), sent.bytes)
  /\ InOrder(Unread)
  /\ Whole(Unread, LastOf(Seen), sent.bytes)
  /\ \A j \in 1..Len(Unread) : Marked(Unread[j], heads)

MInv == MType /\ MSeen /\ MUnread

\* What Read has seen may be continued with the next bytes, or with a head after a gap.
LEMMA Continue ==
  ASSUME NEW s \in Seq(Nat), s # <<>>, NEW p \in Seq(Nat), p # <<>>, NEW hs,
         Ascends(s), Gaps(s, hs), Consecutive(p),
         LastOf(s) < p[1], LastOf(s) + 1 = p[1] \/ p[1] \in hs
  PROVE  Ascends(s \o p) /\ Gaps(s \o p, hs) /\ LastOf(s \o p) = LastOf(p)
  <1> DEFINE t == s \o p
             n == Len(s)
             k == Len(p)
  <1>1. /\ Len(t) = n + k /\ n \in Nat /\ n > 0 /\ k \in Nat /\ k > 0
        /\ \A i \in 1..n : t[i] = s[i]
        /\ \A i \in 1..n : s[i] \in Nat
        /\ \A m \in 1..k : p[m] \in Nat
    OBVIOUS
  <1>2. \A i \in n + 1..n + k : t[i] = p[i - n] /\ i - n \in 1..k
    OBVIOUS
  <1>3. \A i, j \in 1..n : i < j => s[i] < s[j]
    BY DEF Ascends
  <1>4. \A i \in 1..n - 1 : s[i] + 1 = s[i + 1] \/ s[i + 1] \in hs
    BY DEF Gaps
  <1>5. \A m \in 1..k : p[m] = p[1] + m - 1
    BY DEF Consecutive
  <1>6. s[n] < p[1] /\ (s[n] + 1 = p[1] \/ p[1] \in hs)
    BY DEF LastOf
  <1> HIDE DEF t, n, k
  <1>7. p[1] \in Nat /\ \A i \in n + 1..n + k : t[i] = p[1] + (i - n) - 1
    BY <1>1, <1>2, <1>5
  <1>8. n \in 1..n /\ s[n] \in Nat /\ \A i \in 1..n : s[i] <= s[n]
    <2>1. n \in 1..n /\ s[n] \in Nat
      BY <1>1
    <2>2. ASSUME NEW i \in 1..n PROVE s[i] <= s[n]
      <3>1. i = n \/ i < n
        BY <1>1
      <3>2. s[i] \in Nat /\ (i < n => s[i] < s[n])
        BY <1>1, <1>3, <2>1
      <3> QED
        BY <2>1, <3>1, <3>2
    <2> QED
      BY <2>1, <2>2
  <1>9. ASSUME NEW i \in 1..Len(t), NEW j \in 1..Len(t), i < j PROVE t[i] < t[j]
    <2>1. CASE j <= n
      BY <1>1, <1>3, <1>9, <2>1
    <2>2. CASE i <= n /\ j > n
      <3>0. i \in 1..n
        BY <1>1, <2>2
      <3>1. t[i] = s[i] /\ s[i] <= s[n] /\ s[i] \in Nat /\ s[n] \in Nat
        BY <1>1, <1>8, <3>0
      <3>2. j \in n + 1..n + k
        BY <1>1, <2>2
      <3>3. t[j] = p[1] + (j - n) - 1
        BY <1>7, <3>2
      <3>4. t[j] \in Nat /\ p[1] <= t[j]
        BY <1>1, <1>7, <2>2, <3>3
      <3>5. s[n] < p[1] /\ p[1] \in Nat
        BY <1>6, <1>7
      <3> QED
        BY SMTT(30), <3>1, <3>4, <3>5
    <2>3. CASE i > n
      <3>1. i \in n + 1..n + k /\ j \in n + 1..n + k
        BY <1>1, <1>9, <2>3
      <3>2. t[i] = p[1] + (i - n) - 1 /\ t[j] = p[1] + (j - n) - 1
        BY <1>7, <3>1
      <3> QED
        BY <1>1, <1>7, <1>9, <3>1, <3>2
    <2> QED
      BY <1>1, <1>9, <2>1, <2>2, <2>3
  <1>10. ASSUME NEW i \in 1..Len(t) - 1 PROVE t[i] + 1 = t[i + 1] \/ t[i + 1] \in hs
    <2>1. CASE i < n
      <3>1. i \in 1..n - 1 /\ i \in 1..n /\ i + 1 \in 1..n
        BY <1>1, <2>1
      <3>2. t[i] = s[i] /\ t[i + 1] = s[i + 1]
        BY <1>1, <3>1
      <3> QED
        BY <1>4, <3>1, <3>2
    <2>2. CASE i = n
      <3>1. i \in 1..n /\ i + 1 \in n + 1..n + k /\ (i + 1 - n) = 1
        BY <1>1, <2>2
      <3>2. t[i] = s[n] /\ t[i + 1] = p[1]
        BY <1>1, <1>2, <2>2, <3>1
      <3> QED
        BY <1>6, <3>2
    <2>3. CASE i > n
      <3>1. i \in n + 1..n + k /\ i + 1 \in n + 1..n + k
        BY <1>1, <2>3
      <3>2. t[i] = p[1] + (i - n) - 1
        BY <1>7, <3>1
      <3>3. t[i + 1] = p[1] + ((i + 1) - n) - 1
        BY <1>7, <3>1
      <3> QED
        BY <1>1, <1>7, <3>1, <3>2, <3>3
    <2> QED
      BY <1>1, <2>1, <2>2, <2>3
  <1>11. LastOf(t) = LastOf(p)
    <2>1. n + k \in n + 1..n + k /\ (n + k) - n = k
      BY <1>1
    <2> QED
      BY <1>1, <1>2, <2>1 DEF LastOf, k
  <1> QED
    BY <1>9, <1>10, <1>11 DEF t, Ascends, Gaps

\* A part that Read keeps.
LEMMA Keep ==
  ASSUME NEW s \in Seq(Nat), NEW p \in Seq(Nat), NEW hs, s # <<>>,
         Ascends(s \o p), Gaps(s \o p, hs)
  PROVE  /\ Ascends(s) /\ Gaps(s, hs)
         /\ LastOf(s) <= LastOf(s \o p) /\ LastOf(s) \in Nat /\ LastOf(s \o p) \in Nat
  <1> DEFINE t == s \o p
             n == Len(s)
             k == Len(p)
  <1>1. /\ t \in Seq(Nat) /\ Len(t) = n + k /\ n \in Nat /\ k \in Nat /\ n > 0
        /\ \A i \in 1..n : t[i] = s[i]
        /\ \A i \in 1..n : s[i] \in Nat
        /\ \A i \in 1..n + k : t[i] \in Nat
    OBVIOUS
  <1>2. \A i, j \in 1..n + k : i < j => t[i] < t[j]
    BY <1>1 DEF Ascends
  <1>3. \A i \in 1..n + k - 1 : t[i] + 1 = t[i + 1] \/ t[i + 1] \in hs
    BY <1>1 DEF Gaps
  <1>4. LastOf(s) = s[n] /\ LastOf(t) = t[n + k]
    BY <1>1 DEF LastOf
  <1> HIDE DEF t, n, k
  <1>5. \A i, j \in 1..n : i < j => s[i] < s[j]
    BY <1>1, <1>2
  <1>6. \A i \in 1..n - 1 : s[i] + 1 = s[i + 1] \/ s[i + 1] \in hs
    BY SMTT(30), <1>1, <1>3
  <1>7. s[n] <= t[n + k] /\ s[n] \in Nat /\ t[n + k] \in Nat
    <2>1. n \in 1..n /\ n \in 1..n + k /\ n + k \in 1..n + k /\ (n = n + k \/ n < n + k)
      BY <1>1
    <2>2. t[n] = s[n] /\ s[n] \in Nat /\ t[n + k] \in Nat /\ (n < n + k => t[n] < t[n + k])
      BY <1>1, <1>2, <2>1
    <2> QED
      BY <2>1, <2>2
  <1> QED
    BY <1>4, <1>5, <1>6, <1>7 DEF t, n, Ascends, Gaps

\* The next segment is taken: it has no bytes, or the next ones.
LEMMA NextSegment ==
  ASSUME NEW q \in Seq(Seg), q # <<>>, NEW e \in Nat, NEW top \in Nat,
         e <= top, Within(q, e, top), InOrder(q), Whole(q, e, top),
         NEW p, p = q[1].payload
  PROVE  /\ p \in Seq(Nat) /\ Consecutive(p) /\ InOrder(Tail(q))
         /\ p = <<>> => Within(Tail(q), e, top) /\ Whole(Tail(q), e, top)
         /\ p # <<>> => /\ p[1] = e + 1
                        /\ LastOf(p) \in Nat /\ LastOf(p) <= top
                        /\ Within(Tail(q), LastOf(p), top) /\ Whole(Tail(q), LastOf(p), top)
  <1> DEFINE r == Tail(q)
             n == Len(q)
             k == Len(p)
  <1>1. /\ n \in Nat /\ n > 0 /\ Len(r) = n - 1
        /\ \A j \in 1..n - 1 : r[j] = q[j + 1] /\ j + 1 \in 1..n /\ j + 1 # 1
        /\ \A j \in 1..n : q[j] \in Seg
    OBVIOUS
  <1>2. \A j \in 1..n : j # 1 => j - 1 \in 1..n - 1 /\ r[j - 1] = q[j]
    BY <1>1
  <1>3. \A j \in 1..n : q[j].payload \in Seq(Nat)
    BY <1>1 DEF Seg
  <1>4. p \in Seq(Nat) /\ k \in Nat /\ \A m \in 1..k : p[m] \in Nat
    BY <1>1, <1>3
  <1>5. /\ Consecutive(p)
        /\ \A m \in 1..k : e < p[m] /\ p[m] <= top
        /\ \A j \in 1..n : /\ Consecutive(q[j].payload)
                           /\ \A m \in 1..Len(q[j].payload) :
                                 e < q[j].payload[m] /\ q[j].payload[m] <= top
    BY <1>1 DEF Within
  <1>6. /\ \A m \in 1..k : p[m] = p[1] + m - 1
        /\ k > 0 => LastOf(p) = p[k]
    BY <1>5 DEF Consecutive, LastOf
  <1>7. \A j \in 1..n : j # 1 => \A m \in 1..k, b \in Nat : Carries(q[j], b) => p[m] < b
    <2> SUFFICES ASSUME NEW j \in 1..n, j # 1, NEW m \in 1..k, NEW b \in Nat, Carries(q[j], b)
                 PROVE  p[m] < b
      OBVIOUS
    <2>1. 1 < j /\ 1 \in 1..n
      BY <1>1
    <2> QED
      BY <2>1 DEF InOrder, Carries
  <1>8. InOrder(r)
    <2> SUFFICES ASSUME NEW j \in 1..n - 1, NEW l \in 1..n - 1, j < l,
                        NEW a \in 1..Len(r[j].payload), NEW b \in 1..Len(r[l].payload)
                 PROVE  r[j].payload[a] < r[l].payload[b]
      BY <1>1 DEF InOrder
    <2>1. /\ j + 1 \in 1..n /\ l + 1 \in 1..n /\ j + 1 < l + 1
          /\ r[j] = q[j + 1] /\ r[l] = q[l + 1]
      BY <1>1
    <2> QED
      BY <2>1 DEF InOrder
  <1>9. ASSUME NEW b \in Nat, e < b, b <= top, ~Carries(q[1], b)
        PROVE  \E j \in 1..Len(r) : Carries(r[j], b)
    <2>1. PICK j \in 1..n : Carries(q[j], b)
      BY <1>9 DEF Whole
    <2>2. j # 1
      BY <1>9, <2>1
    <2>3. j - 1 \in 1..Len(r) /\ r[j - 1] = q[j]
      BY <1>1, <1>2, <2>2
    <2> QED
      BY <2>1, <2>3
  <1>10. k = 0 => p = <<>>
    BY <1>4
  <1>11. ASSUME p = <<>> PROVE Within(r, e, top) /\ Whole(r, e, top)
    <2>1. \A b \in Nat : ~Carries(q[1], b)
      BY <1>11 DEF Carries
    <2>2. Within(r, e, top)
      BY <1>1, <1>5 DEF Within
    <2> QED
      BY <1>9, <2>1, <2>2 DEF Whole
  <1>12. ASSUME p # <<>>
         PROVE  /\ p[1] = e + 1 /\ LastOf(p) \in Nat /\ LastOf(p) <= top
                /\ Within(r, LastOf(p), top) /\ Whole(r, LastOf(p), top)
    <2>1. k > 0 /\ k \in 1..k /\ 1 \in 1..k
      BY <1>4, <1>10, <1>12
    <2>2. /\ LastOf(p) \in Nat /\ LastOf(p) <= top /\ LastOf(p) = p[k] /\ p[k] = p[1] + k - 1
          /\ p[1] \in Nat /\ e < p[1] /\ e + 1 <= top /\ e < LastOf(p)
      <3>1. p[k] \in Nat /\ p[k] <= top /\ p[k] = p[1] + k - 1 /\ p[1] \in Nat /\ e < p[1]
        BY <1>4, <1>5, <1>6, <2>1
      <3> QED
        BY SMTT(30), <1>4, <1>6, <2>1, <3>1
    <2>3. p[1] = e + 1
      <3>1. PICK j \in 1..n : Carries(q[j], e + 1)
        BY <2>2 DEF Whole
      <3>2. CASE j = 1
        <4>1. PICK m \in 1..k : p[m] = e + 1
          BY <3>1, <3>2 DEF Carries
        <4>2. p[m] = p[1] + m - 1
          BY <1>6
        <4>3. m \in Nat /\ 1 <= m /\ p[1] \in Nat /\ e < p[1] /\ p[1] + m - 1 = e + 1
          BY <1>4, <2>2, <4>1, <4>2
        <4> QED
          BY <4>3
      <3>3. CASE j # 1
        <4>1. p[1] < e + 1
          BY <1>7, <2>1, <3>1, <3>3
        <4> QED
          BY <2>2, <4>1
      <3> QED
        BY <3>2, <3>3
    <2>4. ASSUME NEW b \in Nat, LastOf(p) < b, b <= top
          PROVE  \E j \in 1..Len(r) : Carries(r[j], b)
      <3>1. ASSUME Carries(q[1], b) PROVE FALSE
        <4>1. PICK m \in 1..k : p[m] = b
          BY <3>1 DEF Carries
        <4>2. p[m] = p[1] + m - 1
          BY <1>6
        <4> QED
          BY SMTT(30), <1>4, <2>2, <2>4, <4>1, <4>2
      <3>2. e < b
        BY <2>2, <2>4
      <3> QED
        BY <1>9, <2>4, <3>1, <3>2
    <2>5. Within(r, LastOf(p), top)
      <3> SUFFICES ASSUME NEW j \in 1..n - 1
                   PROVE  /\ Consecutive(r[j].payload)
                          /\ \A m \in 1..Len(r[j].payload) :
                                LastOf(p) < r[j].payload[m] /\ r[j].payload[m] <= top
        BY <1>1 DEF Within
      <3>1. r[j] = q[j + 1] /\ j + 1 \in 1..n /\ j + 1 # 1
        BY <1>1
      <3>2. ASSUME NEW m \in 1..Len(r[j].payload) PROVE LastOf(p) < r[j].payload[m]
        <4>1. r[j].payload[m] \in Nat /\ Carries(q[j + 1], r[j].payload[m])
          BY <1>3, <3>1 DEF Carries
        <4> QED
          BY <1>7, <2>1, <2>2, <3>1, <4>1
      <3> QED
        BY <1>5, <3>1, <3>2
    <2> QED
      BY <2>2, <2>3, <2>4, <2>5 DEF Whole
  <1> QED
    BY <1>4, <1>5, <1>8, <1>11, <1>12

\* Between two moments Read has seen the same and as much has been left unread.
LEMMA NothingRead ==
  ASSUME MInv, MType', Seen' = Seen, Unread' = Unread, UNCHANGED sent, UNCHANGED heads
  PROVE  MInv'
  <1>1. MSeen'
    BY DEF MInv, MSeen
  <1>2. MUnread'
    BY DEF MInv, MUnread
  <1> QED
    BY <1>1, <1>2 DEF MInv

LEMMA Regroup ==
  ASSUME NEW s \in Seq(Nat), NEW t \in Seq(Nat), NEW u \in Seq(Nat)
  PROVE  (s \o t) \o u = s \o (t \o u)
  BY SMTT(30), ConcatAssociative

\* CopyOut only moves bytes from the buffer to the caller.
LEMMA CopyOutMoves ==
  ASSUME MType, MieruOK, M!CopyOut(unreadBuf)
  PROVE  unreadBuf' \in Seq(Nat) /\ out' \in Seq(Nat) /\ out' \o unreadBuf' = out \o unreadBuf
  <1> DEFINE n == IF Len(unreadBuf) < ReadSize THEN Len(unreadBuf) ELSE ReadSize
             a == SubSeq(unreadBuf, 1, n)
             b == SubSeq(unreadBuf, n + 1, Len(unreadBuf))
  <1>1. out' = out \o a /\ unreadBuf' = b
    BY DEF M!CopyOut
  <1>2. unreadBuf \in Seq(Nat) /\ out \in Seq(Nat) /\ Len(unreadBuf) \in Nat
        /\ n \in Nat /\ n <= Len(unreadBuf)
    BY DEF MType, MieruOK
  <1> HIDE DEF n
  <1>3. a \in Seq(Nat) /\ b \in Seq(Nat) /\ a \o b = unreadBuf
    <2>1. /\ 1 \in 1..Len(unreadBuf) + 1 /\ n \in 1 - 1..Len(unreadBuf)
          /\ Len(unreadBuf) \in n..Len(unreadBuf)
      BY <1>2
    <2>2. a \o b = SubSeq(unreadBuf, 1, Len(unreadBuf))
      BY <1>2, <2>1, ConcatAdjacentSubSeq, Zenon
    <2>3. SubSeq(unreadBuf, 1, Len(unreadBuf)) = unreadBuf
      BY <1>2, SubSeqFull, Zenon
    <2>4. a \in Seq(Nat) /\ b \in Seq(Nat)
      BY <1>2
    <2> QED
      BY <2>2, <2>3, <2>4
  <1> HIDE DEF a, b
  <1>4. out \in Seq(Nat) /\ a \in Seq(Nat) /\ b \in Seq(Nat)
    BY <1>2, <1>3
  <1>5. out \o a \in Seq(Nat)
    BY <1>4
  <1>6. (out \o a) \o b = out \o (a \o b)
    BY <1>4, Regroup
  <1> QED
    BY <1>1, <1>3, <1>5, <1>6

\* Any step of the session keeps the invariant.
LEMMA MieruStep == MieruOK /\ MInv /\ [M!Next]_(M!vars) => MInv'
  <1> SUFFICES ASSUME MieruOK, MInv, [M!Next]_(M!vars) PROVE MInv'
    OBVIOUS
  <1>0. MType /\ MSeen /\ MUnread
    BY DEF MInv
  <1> DEFINE a == <<0>> \o out
             e == LastOf(Seen)
             top == sent.bytes
  <1>a. /\ a \in Seq(Nat) /\ a # <<>> /\ Seen = a \o unreadBuf /\ unreadBuf \in Seq(Nat)
        /\ Seen \in Seq(Nat) /\ Seen # <<>>
    BY <1>0 DEF MType, Seen
  <1>e. /\ e \in Nat /\ top \in Nat
        /\ Ascends(a) /\ Gaps(a, heads) /\ LastOf(a) <= e /\ LastOf(a) \in Nat
    <2>1. Ascends(a \o unreadBuf) /\ Gaps(a \o unreadBuf, heads)
      BY <1>0, <1>a DEF MSeen
    <2> QED
      BY <1>0, <1>a, <2>1, Keep DEF MType
  <1>1. ASSUME NEW kind \in {"head", "data", "other"}, NEW n \in Sizes, M!ServerSend(kind, n) PROVE MInv'
    <2> DEFINE p == M!Bytes(top, n)
               seg == [kind |-> kind, payload |-> p]
               q == Unread
    <2>1. /\ wire' = Append(wire, seg) /\ sent'.bytes = top + n
          /\ heads' = IF kind = "head" THEN heads \cup {top + 1} ELSE heads
          /\ kind = "head" => n > 0
          /\ UNCHANGED <<recvQueue, unreadBuf, out>>
      BY <1>1 DEF M!ServerSend
    <2>2. n \in Nat /\ p \in Seq(Nat) /\ Len(p) = n /\ \A m \in 1..n : p[m] = top + m
      BY <1>e DEF MieruOK, M!Bytes
    <2> HIDE DEF p
    <2>3. seg \in Seg /\ seg.payload = p /\ seg.kind = kind
      BY <2>2 DEF Seg
    <2> HIDE DEF seg
    <2>4. MType'
      BY <1>0, <1>e, <2>1, <2>2, <2>3 DEF MType
    <2>5. Seen' = Seen
      BY <2>1 DEF Seen
    <2>6. MSeen'
      BY <1>0, <2>1, <2>5 DEF MSeen, Gaps
    <2>7. q \in Seq(Seg) /\ Unread' = Append(q, seg)
      BY <1>0, <2>1, <2>3 DEF MType, Unread
    <2> HIDE DEF q
    <2>8. /\ Len(q) \in Nat /\ Len(Unread') = Len(q) + 1 /\ Unread'[Len(q) + 1] = seg
          /\ \A j \in 1..Len(q) : Unread'[j] = q[j] /\ q[j] \in Seg
      BY <2>3, <2>7
    <2>9. /\ e <= top /\ Within(q, e, top) /\ InOrder(q) /\ Whole(q, e, top)
          /\ \A j \in 1..Len(q) : Marked(q[j], heads)
      BY <1>0 DEF MUnread, q
    <2>10. \A j \in 1..Len(q) : /\ q[j].payload \in Seq(Nat)
                                /\ \A m \in 1..Len(q[j].payload) : q[j].payload[m] \in Nat
      BY <2>8 DEF Seg
    <2>11. Within(Unread', e, top + n)
      <3> SUFFICES ASSUME NEW j \in 1..Len(q) + 1
                   PROVE  /\ Consecutive(Unread'[j].payload)
                          /\ \A m \in 1..Len(Unread'[j].payload) :
                                e < Unread'[j].payload[m] /\ Unread'[j].payload[m] <= top + n
        BY <2>8 DEF Within
      <3>1. CASE j \in 1..Len(q)
        <4>1. Unread'[j] = q[j]
          BY <2>8, <3>1
        <4>2. /\ Consecutive(q[j].payload)
              /\ \A m \in 1..Len(q[j].payload) : e < q[j].payload[m] /\ q[j].payload[m] <= top
          BY <2>9, <3>1 DEF Within
        <4>3. \A m \in 1..Len(q[j].payload) : q[j].payload[m] <= top + n
          BY SMTT(30), <1>e, <2>2, <2>10, <3>1, <4>2
        <4> QED
          BY <4>1, <4>2, <4>3
      <3>2. CASE j = Len(q) + 1
        <4>1. Unread'[j].payload = p
          BY <2>3, <2>8, <3>2
        <4>2. Consecutive(p) /\ \A m \in 1..Len(p) : e < p[m] /\ p[m] <= top + n
          BY SMTT(30), <1>e, <2>2, <2>9 DEF Consecutive
        <4> QED
          BY <4>1, <4>2
      <3> QED
        BY <2>8, <3>1, <3>2
    <2>12. InOrder(Unread')
      <3> SUFFICES ASSUME NEW j \in 1..Len(q) + 1, NEW l \in 1..Len(q) + 1, j < l,
                          NEW x \in 1..Len(Unread'[j].payload), NEW y \in 1..Len(Unread'[l].payload)
                   PROVE  Unread'[j].payload[x] < Unread'[l].payload[y]
        BY <2>8 DEF InOrder
      <3>1. j \in 1..Len(q) /\ Unread'[j] = q[j]
        BY <2>8
      <3>2. CASE l \in 1..Len(q)
        <4>1. Unread'[l] = q[l]
          BY <2>8, <3>2
        <4> QED
          BY <2>9, <3>1, <3>2, <4>1 DEF InOrder
      <3>3. CASE l = Len(q) + 1
        <4>1. Unread'[l].payload = p
          BY <2>3, <2>8, <3>3
        <4>2. q[j].payload[x] <= top /\ q[j].payload[x] \in Nat
          BY <2>9, <2>10, <3>1 DEF Within
        <4>3. y \in 1..n /\ p[y] = top + y
          BY <2>2, <4>1
        <4>4. q[j].payload[x] < top + y
          BY <1>e, <4>2, <4>3
        <4> QED
          BY <3>1, <4>1, <4>3, <4>4
      <3> QED
        BY <2>8, <3>2, <3>3
    <2>13. Whole(Unread', e, top + n)
      <3> SUFFICES ASSUME NEW b \in Nat, e < b, b <= top + n
                   PROVE  \E j \in 1..Len(q) + 1 : Carries(Unread'[j], b)
        BY <2>8 DEF Whole
      <3>1. CASE b <= top
        <4>1. PICK j \in 1..Len(q) : Carries(q[j], b)
          BY <2>9, <3>1 DEF Whole
        <4>2. j \in 1..Len(q) + 1 /\ Unread'[j] = q[j]
          BY <2>8
        <4> QED
          BY <4>1, <4>2
      <3>2. CASE b > top
        <4>1. b - top \in 1..n /\ top + (b - top) = b
          BY <1>e, <2>2, <3>2
        <4>2. p[b - top] = b
          BY <2>2, <4>1
        <4>3. Carries(seg, b)
          BY <2>2, <2>3, <4>1, <4>2 DEF Carries
        <4>4. Len(q) + 1 \in 1..Len(q) + 1
          BY <2>8
        <4> QED
          BY <2>8, <4>3, <4>4
      <3> QED
        BY <1>e, <3>1, <3>2
    <2>14. \A j \in 1..Len(q) + 1 : Marked(Unread'[j], heads')
      <3>1. \A j \in 1..Len(q) : Marked(q[j], heads')
        BY <2>1, <2>9 DEF Marked
      <3>2. Marked(seg, heads')
        <4> SUFFICES ASSUME kind = "head" PROVE p # <<>> /\ p[1] \in heads'
          BY <2>3 DEF Marked
        <4>1. 1 \in 1..n /\ p # <<>>
          BY <2>1, <2>2
        <4>2. p[1] = top + 1
          BY <2>2, <4>1
        <4> QED
          BY <2>1, <4>1, <4>2
      <3>3. \A j \in 1..Len(q) + 1 : j \in 1..Len(q) \/ j = Len(q) + 1
        BY <2>8
      <3> QED
        BY <2>8, <3>1, <3>2, <3>3
    <2>15. LastOf(Seen)' = e /\ e <= top + n
      BY <1>e, <2>2, <2>5, <2>9 DEF LastOf
    <2>16. MUnread'
      BY <2>1, <2>8, <2>11, <2>12, <2>13, <2>14, <2>15 DEF MUnread, Within, Whole
    <2> QED
      BY <2>4, <2>6, <2>16 DEF MInv
  <1>2. ASSUME M!ReceiveSegment PROVE MInv'
    <2>1. /\ wire # <<>> /\ recvQueue' = Append(recvQueue, Head(wire)) /\ wire' = Tail(wire)
          /\ UNCHANGED <<sent, heads, unreadBuf, out>>
      BY <1>2 DEF M!ReceiveSegment
    <2>2. wire \in Seq(Seg) /\ recvQueue \in Seq(Seg)
      BY <1>0 DEF MType
    <2>3. Unread' = Unread /\ recvQueue' \in Seq(Seg) /\ wire' \in Seq(Seg)
      BY <2>1, <2>2 DEF Unread
    <2>4. MType' /\ Seen' = Seen
      BY <1>0, <2>1, <2>3 DEF MType, Seen
    <2> QED
      BY <2>1, <2>3, <2>4, NothingRead
  <1>3. ASSUME UNCHANGED <<wire, sent, heads, recvQueue>>, M!CopyOut(unreadBuf) PROVE MInv'
    <2>1. unreadBuf' \in Seq(Nat) /\ out' \in Seq(Nat) /\ out' \o unreadBuf' = out \o unreadBuf
      BY <1>0, <1>3, CopyOutMoves
    <2> DEFINE z == <<0>>
    <2>2. z \in Seq(Nat) /\ out \in Seq(Nat) /\ unreadBuf \in Seq(Nat)
      BY <1>0 DEF MType
    <2>3. Seen' = Seen
      <3>1. Seen' = (z \o out') \o unreadBuf' /\ Seen = (z \o out) \o unreadBuf
        BY DEF Seen
      <3> HIDE DEF z
      <3>2. (z \o out') \o unreadBuf' = z \o (out' \o unreadBuf')
        BY ZenonT(40), <2>1, <2>2, Regroup
      <3>3. (z \o out) \o unreadBuf = z \o (out \o unreadBuf)
        BY <2>2, Regroup
      <3> QED
        BY <2>1, <3>1, <3>2, <3>3
    <2>4. MType' /\ Unread' = Unread
      BY <1>0, <1>3, <2>1 DEF MType, Unread
    <2> QED
      BY <1>3, <2>3, <2>4, NothingRead
  <1>4. ASSUME recvQueue # <<>>, unreadBuf' = M!Handle(unreadBuf, Head(recvQueue)),
               recvQueue' = Tail(recvQueue), UNCHANGED <<wire, sent, heads, out>>
        PROVE  MInv'
    <2> DEFINE q == Unread
               seg == q[1]
               p == seg.payload
    <2>1. wire \in Seq(Seg) /\ recvQueue \in Seq(Seg)
      BY <1>0 DEF MType
    <2>2. q \in Seq(Seg) /\ q # <<>> /\ Unread' = Tail(q) /\ Head(recvQueue) = seg /\ seg \in Seg
      BY <1>4, <2>1 DEF Unread
    <2>3. /\ e <= top /\ Within(q, e, top) /\ InOrder(q) /\ Whole(q, e, top)
          /\ \A j \in 1..Len(q) : Marked(q[j], heads)
      BY <1>0 DEF MUnread
    <2> HIDE DEF q
    <2>4. /\ p \in Seq(Nat) /\ Consecutive(p) /\ InOrder(Tail(q))
          /\ p = <<>> => Within(Tail(q), e, top) /\ Whole(Tail(q), e, top)
          /\ p # <<>> => /\ p[1] = e + 1
                         /\ LastOf(p) \in Nat /\ LastOf(p) <= top
                         /\ Within(Tail(q), LastOf(p), top) /\ Whole(Tail(q), LastOf(p), top)
      BY <1>e, <2>2, <2>3, NextSegment
    <2>5. \A j \in 1..Len(Tail(q)) : Marked(Tail(q)[j], heads)
      <3>1. \A j \in 1..Len(Tail(q)) : Tail(q)[j] = q[j + 1] /\ j + 1 \in 1..Len(q)
        BY <2>2
      <3> QED
        BY <2>3, <3>1
    <2>6. Marked(seg, heads)
      <3>1. 1 \in 1..Len(q)
        BY <2>2
      <3> QED
        BY <2>3, <3>1
    <2>7. unreadBuf' = IF seg.kind = "head" THEN p ELSE unreadBuf \o p
      BY <1>4, <2>2 DEF M!Handle
    <2>8. Seen' = IF seg.kind = "head" THEN a \o p ELSE Seen \o p
      <3>1. Seen' = a \o unreadBuf'
        BY <1>4 DEF Seen
      <3>2. a \o (unreadBuf \o p) = (a \o unreadBuf) \o p
        <4>1. a \in Seq(Nat) /\ unreadBuf \in Seq(Nat) /\ p \in Seq(Nat)
          BY <1>a, <2>4
        <4> HIDE DEF a, p
        <4> QED
          BY <4>1, Regroup
      <3> QED
        BY <1>a, <2>7, <3>1, <3>2
    <2>9. MType'
      <3>1. recvQueue' \in Seq(Seg)
        BY <1>4, <2>1
      <3>2. unreadBuf \o p \in Seq(Nat)
        BY <1>a, <2>4
      <3>3. unreadBuf' \in Seq(Nat)
        BY <2>4, <2>7, <3>2
      <3> QED
        BY <1>0, <1>4, <3>1, <3>3 DEF MType
    <2>10. CASE p = <<>>
      <3>1. seg.kind # "head"
        BY <2>6, <2>10 DEF Marked
      <3>2. Seen' = Seen
        BY <1>a, <2>8, <2>10, <3>1
      <3>3. MSeen'
        BY <1>0, <1>4, <3>2 DEF MSeen
      <3>4. MUnread'
        BY <1>4, <2>2, <2>3, <2>4, <2>5, <2>10, <3>2 DEF MUnread
      <3> QED
        BY <2>9, <3>3, <3>4 DEF MInv
    <2>11. CASE p # <<>>
      <3>1. /\ p[1] = e + 1 /\ LastOf(p) \in Nat /\ LastOf(p) <= top
            /\ Within(Tail(q), LastOf(p), top) /\ Whole(Tail(q), LastOf(p), top)
        BY <2>4, <2>11
      <3>2. Ascends(Seen') /\ Gaps(Seen', heads) /\ LastOf(Seen') = LastOf(p)
        <4>1. CASE seg.kind = "head"
          <5>1. p[1] \in heads /\ LastOf(a) < p[1]
            BY <1>e, <2>6, <3>1, <4>1 DEF Marked
          <5>2. Ascends(a \o p) /\ Gaps(a \o p, heads) /\ LastOf(a \o p) = LastOf(p)
            BY <1>a, <1>e, <2>4, <2>11, <5>1, Continue
          <5> QED
            BY <2>8, <4>1, <5>2
        <4>2. CASE seg.kind # "head"
          <5>1. LastOf(Seen) < p[1] /\ LastOf(Seen) + 1 = p[1]
            BY <1>e, <3>1
          <5>2. Ascends(Seen \o p) /\ Gaps(Seen \o p, heads) /\ LastOf(Seen \o p) = LastOf(p)
            BY <1>0, <1>a, <2>4, <2>11, <5>1, Continue DEF MSeen
          <5> QED
            BY <2>8, <4>2, <5>2
        <4> QED
          BY <4>1, <4>2
      <3>3. MSeen'
        BY <1>4, <3>2 DEF MSeen
      <3>4. MUnread'
        BY <1>4, <2>2, <2>4, <2>5, <3>1, <3>2 DEF MUnread, LastOf
      <3> QED
        BY <2>9, <3>3, <3>4 DEF MInv
    <2> QED
      BY <2>10, <2>11
  <1>5. ASSUME UNCHANGED <<wire, sent, heads, recvQueue, unreadBuf, out>> PROVE MInv'
    <2>1. MType' /\ Seen' = Seen /\ Unread' = Unread
      BY <1>0, <1>5 DEF MType, Seen, Unread
    <2> QED
      BY <1>5, <2>1, NothingRead
  <1>6. CASE M!Read
    BY <1>3, <1>5, <1>6 DEF M!Read
  <1>7. CASE M!Drain
    BY <1>3, <1>4, <1>5, <1>7 DEF M!Drain
  <1>8. CASE \/ M!ServerClose \/ M!ReceiveEnd \/ M!Poll \/ M!SelectAgain \/ M!SelectDone \/ M!Close
             \/ UNCHANGED M!vars
    BY <1>5, <1>8 DEF M!ServerClose, M!ReceiveEnd, M!Poll, M!SelectAgain, M!SelectDone, M!Close, M!vars
  <1> QED
    BY <1>1, <1>2, <1>6, <1>7, <1>8 DEF M!Next, M!Receive, M!ReadStep

\* What Read returns and keeps follows the stream of the server, with gaps only before
\* segments that look like a head, for any number and size of the segments, any size of the
\* buffer given to Read, and however segments arrive while Read empties the queue.
THEOREM StreamGaps == M!Spec => []GapsEndAtHeads
  <1> MieruOK
    BY FlowsAssumption
  <1>1. M!Init => MInv
    <2> SUFFICES ASSUME M!Init PROVE MInv
      OBVIOUS
    <2>1. /\ wire = <<>> /\ recvQueue = <<>> /\ unreadBuf = <<>> /\ out = <<>> /\ sent.bytes = 0
      BY DEF M!Init
    <2>2. MType
      BY <2>1 DEF MType
    <2>3. Seen = <<0>> /\ Unread = <<>> /\ Len(Unread) = 0 /\ Len(Seen) = 1 /\ LastOf(Seen) = 0
      BY <2>1 DEF Seen, Unread, LastOf
    <2>4. MSeen
      BY <2>3 DEF MSeen, Ascends, Gaps
    <2>5. MUnread
      BY <2>1, <2>3 DEF MUnread, Within, InOrder, Whole
    <2> QED
      BY <2>2, <2>4, <2>5 DEF MInv
  <1>2. MInv => M!GapsEndAtHeads
    <2> SUFFICES ASSUME MInv PROVE M!GapsEndAtHeads
      OBVIOUS
    <2>1. Len(Seen) \in Nat
      BY DEF MInv, MType, Seen
    <2>2. \A i \in 1..Len(Seen) - 1 : i \in 1..Len(Seen) /\ i + 1 \in 1..Len(Seen) /\ i < i + 1
      BY <2>1
    <2>3. \A i \in 1..Len(Seen) - 1 : Seen[i] < Seen[i + 1]
      BY <2>2 DEF MInv, MSeen, Ascends
    <2> QED
      BY <2>3 DEF MInv, MSeen, Gaps, Seen, M!GapsEndAtHeads
  <1> QED
    BY <1>1, <1>2, MieruStep, PTL DEF M!Spec, GapsEndAtHeads

=============================================================================
