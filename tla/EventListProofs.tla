--------------------------- MODULE EventListProofs ---------------------------
(***************************************************************************)
(* Proofs about EventList, for every set of threads and of ids, and        *)
(* whether or not malloc may fail.                                         *)
(***************************************************************************)
EXTENDS EventList, SequenceTheorems, TLAPS

(***************************************************************************)
(* The inductive invariant                                                 *)
(***************************************************************************)

Appending == {"append", "settail", "unlock"}

\* One link is locked at most; it is the last one, or the one just before the
\* node that is being appended.
LinksOK ==
  /\ \A t, u \in Threads : lock[t] # Unlocked /\ lock[u] # Unlocked => t = u
  /\ \A t \in Threads :
       /\ pc[t] \in Appending => lock[t] = pos[t]
       /\ lock[t] # Unlocked /\ pc[t] \notin Appending => lock[t] = Len(evs)
       /\ pc[t] = "append" => pos[t] = Len(evs)
       /\ pc[t] \in {"settail", "unlock"} => pos[t] = Len(evs) - 1

\* tail is behind only between the two assignments of append_to_list.
TailOK ==
  /\ (\A t \in Threads : pc[t] # "settail") => tail = Len(evs)
  /\ \A t \in Threads : pc[t] = "settail" => tail = pos[t]

\* Nobody has passed a link that is locked to append.
NobodyBeyond ==
  \A t, u \in Threads : pc[t] \in {"settail", "unlock"} => pos[u] <= pos[t]

\* A search has not seen the id in the nodes it has passed; what LIST has
\* accumulated is the part of the list it has passed.
SearchesOK ==
  \A t \in Threads :
    /\ pc[t] = "bscan" \/ pc[t] \in Appending => cmd[t].kind = "create" /\ cmd[t].id \in Ids
    /\ pc[t] = "scan" => cmd[t].kind = "get" /\ cmd[t].id \in Ids
    /\ pc[t] = "list" => cmd[t].kind = "list" /\ seen[t] = SubSeq(evs, 1, pos[t])
    /\ pc[t] \in {"bscan", "scan"} => \A i \in 1 .. pos[t] - 1 : evs[i] # cmd[t].id
    /\ pc[t] = "append" => \A i \in 1 .. Len(evs) : evs[i] # cmd[t].id

Inv == TypeOK /\ LinksOK /\ TailOK /\ NobodyBeyond /\ SearchesOK /\ UniqueIds
(***************************************************************************)
(* Invariance                                                              *)
(***************************************************************************)

\* The results of the calls.
LEMMA ResultTypes ==
  \A r \in {"none", "created", "exists", "found", "missing", "failed"} : [kind |-> r] \in Results
BY DEF Results

\* A prefix is not affected by an append.
LEMMA SubSeqOfAppend ==
  ASSUME NEW S, NEW s \in Seq(S), NEW e \in S, NEW n \in 0 .. Len(s)
  PROVE  SubSeq(Append(s, e), 1, n) = SubSeq(s, 1, n)
<1>1. Append(s, e) \in Seq(S) /\ Len(Append(s, e)) = Len(s) + 1
      /\ \A i \in 1 .. Len(s) : Append(s, e)[i] = s[i]
  BY AppendProperties
<1> DEFINE p == SubSeq(Append(s, e), 1, n)  q == SubSeq(s, 1, n)
<1>2. p \in Seq(S) /\ q \in Seq(S) /\ Len(p) = n /\ Len(q) = n
      /\ \A i \in 1 .. n : p[i] = Append(s, e)[i] /\ q[i] = s[i]
  BY <1>1, SubSeqProperties, LenProperties
<1>3. \A i \in 1 .. n : p[i] = q[i]
  BY <1>1, <1>2
<1> HIDE DEF p, q
<1>4. p = q
  BY <1>2, <1>3, SeqEqual
<1> QED BY <1>4 DEF p, q

\* No step breaks the invariant.
LEMMA StepInv == ASSUME Inv, [Next]_vars PROVE Inv'
<1> USE DEF Inv
<1>0. /\ evs \in Seq(Ids) /\ Len(evs) \in Nat /\ tail \in Nat /\ Unlocked = -1
      /\ lock \in [Threads -> Nat \cup {Unlocked}] /\ pos \in [Threads -> Nat]
      /\ \A u \in Threads : pos[u] <= Len(evs)
      /\ pc \in [Threads -> {"idle", "bscan", "append", "settail", "unlock", "scan", "list", "done"}]
      /\ cmd \in [Threads -> Commands] /\ seen \in [Threads -> Seq(Ids)]
  BY DEF TypeOK, Unlocked
<1>1. ASSUME NEW t \in Threads, Call(t), exited' = exited PROVE Inv'
  <2>0. PICK c \in Commands : /\ cmd' = [cmd EXCEPT ![t] = c]
                              /\ pc' = [pc EXCEPT ![t] = Entry[c.kind]]
    BY <1>1 DEF Call
  <2>00. /\ Entry[c.kind] \in {"bscan", "scan", "list"}
         /\ Entry[c.kind] = "bscan" => c.kind = "create" /\ c.id \in Ids
         /\ Entry[c.kind] = "scan" => c.kind = "get" /\ c.id \in Ids
         /\ Entry[c.kind] = "list" => c.kind = "list"
    BY DEF Commands, Entry
  <2>000. /\ pos' = [pos EXCEPT ![t] = 0] /\ seen' = [seen EXCEPT ![t] = <<>>]
          /\ pc[t] = "idle" /\ UNCHANGED <<evs, tail, lock, res>>
    BY <1>1 DEF Call
  <2>1. TypeOK'
    <3>1. left[t] - 1 \in Nat
      BY <1>1 DEF Call, TypeOK
    <3> QED BY <1>1, <2>0, <2>00, <3>1 DEF Call, TypeOK
  <2>2. LinksOK'
    BY <1>0, <2>0, <2>00, <2>000 DEF LinksOK, Appending
  <2>3. TailOK'
    BY <1>0, <2>0, <2>00, <2>000 DEF TailOK
  <2>4. NobodyBeyond'
    BY <1>0, <2>0, <2>00, <2>000 DEF NobodyBeyond
  <2>5. SearchesOK'
    <3>1. SubSeq(evs, 1, 0) = <<>>
      BY <1>0, SubSeqEmpty
    <3> QED BY <1>0, <2>0, <2>00, <2>000, <3>1 DEF SearchesOK, Appending
  <2>6. UniqueIds'
    BY <1>0, <1>1 DEF Call, UniqueIds, Finish
  <2> QED BY <2>1, <2>2, <2>3, <2>4, <2>5, <2>6
<1>2. ASSUME NEW t \in Threads, BlockingFound(t), exited' = exited PROVE Inv'
  <2>1. TypeOK'
    BY ResultTypes, <1>2 DEF BlockingFound, TypeOK, Finish
  <2>2. LinksOK'
    BY <1>0, <1>2 DEF BlockingFound, LinksOK, Appending, Finish, Free
  <2>3. TailOK'
    BY <1>0, <1>2 DEF BlockingFound, TailOK, LinksOK, Appending, Finish
  <2>4. NobodyBeyond'
    BY <1>0, <1>2 DEF BlockingFound, NobodyBeyond, LinksOK, Appending, Finish, Free
  <2>5. SearchesOK'
    BY <1>0, <1>2 DEF BlockingFound, SearchesOK, Appending, Finish, AtEvent
  <2>6. UniqueIds'
    BY <1>0, <1>2 DEF BlockingFound, UniqueIds, Finish
  <2> QED BY <2>1, <2>2, <2>3, <2>4, <2>5, <2>6
<1>3. ASSUME NEW t \in Threads, BlockingAdvance(t), exited' = exited PROVE Inv'
  <2>1. TypeOK'
    BY ResultTypes, <1>3 DEF BlockingAdvance, TypeOK, Finish
  <2>2. LinksOK'
    BY <1>0, <1>3 DEF BlockingAdvance, LinksOK, Appending, Finish, Free
  <2>3. TailOK'
    BY <1>0, <1>3 DEF BlockingAdvance, TailOK, LinksOK, Appending, Finish
  <2>4. NobodyBeyond'
    BY <1>0, <1>3 DEF BlockingAdvance, NobodyBeyond, LinksOK, Appending, Finish, Free
  <2>5. SearchesOK'
    BY <1>0, <1>3 DEF BlockingAdvance, SearchesOK, Appending, Finish, AtEvent
  <2>6. UniqueIds'
    BY <1>0, <1>3 DEF BlockingAdvance, UniqueIds, Finish
  <2> QED BY <2>1, <2>2, <2>3, <2>4, <2>5, <2>6
<1>4. ASSUME NEW t \in Threads, BlockingLast(t), exited' = exited PROVE Inv'
  <2>1. TypeOK'
    BY ResultTypes, <1>4 DEF BlockingLast, TypeOK, Finish
  <2>2. LinksOK'
    <3>1. \A u \in Threads : lock[u] = Unlocked
      BY <1>0, <1>4 DEF BlockingLast, LinksOK, NobodyBeyond, Appending, Free
    <3> QED BY <1>0, <1>4, <3>1 DEF BlockingLast, LinksOK, Appending
  <2>3. TailOK'
    BY <1>0, <1>4 DEF BlockingLast, TailOK, LinksOK, Appending, Finish
  <2>4. NobodyBeyond'
    BY <1>0, <1>4 DEF BlockingLast, NobodyBeyond, LinksOK, Appending, Finish, Free
  <2>5. SearchesOK'
    BY <1>0, <1>4 DEF BlockingLast, SearchesOK, Appending, Finish, AtEvent
  <2>6. UniqueIds'
    BY <1>0, <1>4 DEF BlockingLast, UniqueIds, Finish
  <2> QED BY <2>1, <2>2, <2>3, <2>4, <2>5, <2>6
<1>5. ASSUME NEW t \in Threads, LinkNode(t), exited' = exited PROVE Inv'
  <2>0. \A u \in Threads \ {t} : lock[u] = Unlocked /\ pc[u] \notin Appending
    BY <1>0, <1>5 DEF LinkNode, LinksOK, Appending
  <2>00. pc[t] = "append" /\ tail = Len(evs) /\ pos[t] = Len(evs) /\ lock[t] = Len(evs)
    BY <1>0, <1>5, <2>0 DEF LinkNode, LinksOK, TailOK, Appending
  <2>000. evs' = Append(evs, cmd[t].id) /\ cmd[t].id \in Ids
    <3>1. SubSeq(evs, 1, Len(evs)) = evs
      BY <1>0, SubSeqFull
    <3>2. cmd[t].id \in Ids
      BY <2>00 DEF SearchesOK, Appending
    <3> QED BY <1>5, <2>00, <3>1, <3>2 DEF LinkNode
  <2>0000. /\ evs' \in Seq(Ids) /\ Len(evs') = Len(evs) + 1 /\ evs'[Len(evs) + 1] = cmd[t].id
           /\ \A i \in 1 .. Len(evs) : evs'[i] = evs[i]
    BY <1>0, <2>000, AppendProperties
  <2>1. TypeOK'
    BY <1>5, <2>00, <2>0000 DEF LinkNode, TypeOK
  <2>2. LinksOK'
    BY <1>0, <1>5, <2>0, <2>00, <2>0000 DEF LinkNode, LinksOK, Appending
  <2>3. TailOK'
    BY <1>0, <1>5, <2>0, <2>00 DEF LinkNode, TailOK, Appending
  <2>4. NobodyBeyond'
    BY <1>0, <1>5, <2>0, <2>00 DEF LinkNode, NobodyBeyond, Appending
  <2>5. SearchesOK'
    <3>1. ASSUME NEW u \in Threads PROVE SubSeq(evs', 1, pos[u]) = SubSeq(evs, 1, pos[u])
      BY <1>0, <2>000, SubSeqOfAppend
    <3> QED BY <1>0, <1>5, <2>0, <2>00, <2>0000, <3>1, SMTT(30) DEF LinkNode, SearchesOK, Appending
  <2>6. UniqueIds'
    <3>1. DOMAIN evs = 1 .. Len(evs) /\ DOMAIN evs' = 1 .. Len(evs) + 1
      BY <1>0, <2>0000, LenProperties
    <3>2. \A i \in 1 .. Len(evs) : evs[i] # cmd[t].id
      BY <2>00 DEF SearchesOK
    <3>3. ASSUME NEW i \in 1 .. Len(evs) + 1, NEW j \in 1 .. Len(evs) + 1, evs'[i] = evs'[j]
          PROVE  i = j
      <4>1. CASE i \in 1 .. Len(evs) /\ j \in 1 .. Len(evs)
        BY <2>0000, <3>1, <3>3, <4>1 DEF UniqueIds
      <4>2. CASE i = Len(evs) + 1 /\ j \in 1 .. Len(evs)
        <5>1. evs'[i] = cmd[t].id /\ evs'[j] = evs[j] /\ evs[j] # cmd[t].id
          BY <2>0000, <3>2, <4>2
        <5> QED BY <3>3, <5>1
      <4>3. CASE j = Len(evs) + 1 /\ i \in 1 .. Len(evs)
        <5>1. evs'[j] = cmd[t].id /\ evs'[i] = evs[i] /\ evs[i] # cmd[t].id
          BY <2>0000, <3>2, <4>3
        <5> QED BY <3>3, <5>1
      <4> QED BY <1>0, <4>1, <4>2, <4>3
    <3> QED BY <3>1, <3>3 DEF UniqueIds
  <2> QED BY <2>1, <2>2, <2>3, <2>4, <2>5, <2>6
<1>6. ASSUME NEW t \in Threads, SetTail(t), exited' = exited PROVE Inv'
  <2>1. TypeOK'
    BY ResultTypes, <1>6 DEF SetTail, TypeOK, Finish
  <2>2. LinksOK'
    BY <1>0, <1>6 DEF SetTail, LinksOK, Appending, Finish, Free
  <2>3. TailOK'
    <3>1. \A u \in Threads \ {t} : pc[u] \notin Appending
      <4>1. pc[t] = "settail" /\ lock[t] # Unlocked
        BY <1>0, <1>6 DEF SetTail, LinksOK, Appending
      <4>2. \A u \in Threads : pc[u] \in Appending => lock[u] # Unlocked
        BY <1>0 DEF LinksOK
      <4> QED BY <4>1, <4>2 DEF LinksOK
    <3> QED BY <1>0, <1>6, <3>1 DEF SetTail, TailOK, LinksOK, Appending
  <2>4. NobodyBeyond'
    BY <1>0, <1>6 DEF SetTail, NobodyBeyond, LinksOK, Appending, Finish, Free
  <2>5. SearchesOK'
    BY <1>0, <1>6 DEF SetTail, SearchesOK, Appending, Finish, AtEvent
  <2>6. UniqueIds'
    BY <1>0, <1>6 DEF SetTail, UniqueIds, Finish
  <2> QED BY <2>1, <2>2, <2>3, <2>4, <2>5, <2>6
<1>7. ASSUME NEW t \in Threads, UnlockOld(t), exited' = exited PROVE Inv'
  <2>1. TypeOK'
    BY ResultTypes, <1>7 DEF UnlockOld, TypeOK, Finish
  <2>2. LinksOK'
    BY <1>0, <1>7 DEF UnlockOld, LinksOK, Appending, Finish, Free
  <2>3. TailOK'
    BY <1>0, <1>7 DEF UnlockOld, TailOK, LinksOK, Appending, Finish
  <2>4. NobodyBeyond'
    BY <1>0, <1>7 DEF UnlockOld, NobodyBeyond, LinksOK, Appending, Finish, Free
  <2>5. SearchesOK'
    BY <1>0, <1>7 DEF UnlockOld, SearchesOK, Appending, Finish, AtEvent
  <2>6. UniqueIds'
    BY <1>0, <1>7 DEF UnlockOld, UniqueIds, Finish
  <2> QED BY <2>1, <2>2, <2>3, <2>4, <2>5, <2>6
<1>8. ASSUME NEW t \in Threads, AppendFails(t), exited' = exited PROVE Inv'
  <2>1. TypeOK'
    BY ResultTypes, <1>8 DEF AppendFails, TypeOK, Finish
  <2>2. LinksOK'
    BY <1>0, <1>8 DEF AppendFails, LinksOK, Appending, Finish, Free
  <2>3. TailOK'
    BY <1>0, <1>8 DEF AppendFails, TailOK, LinksOK, Appending, Finish
  <2>4. NobodyBeyond'
    BY <1>0, <1>8 DEF AppendFails, NobodyBeyond, LinksOK, Appending, Finish, Free
  <2>5. SearchesOK'
    BY <1>0, <1>8 DEF AppendFails, SearchesOK, Appending, Finish, AtEvent
  <2>6. UniqueIds'
    BY <1>0, <1>8 DEF AppendFails, UniqueIds, Finish
  <2> QED BY <2>1, <2>2, <2>3, <2>4, <2>5, <2>6
<1>9. ASSUME NEW t \in Threads, NoMemory(t), exited' = exited PROVE Inv'
  <2>1. TypeOK'
    BY ResultTypes, <1>9 DEF NoMemory, TypeOK, Finish
  <2>2. LinksOK'
    BY <1>0, <1>9 DEF NoMemory, LinksOK, Appending, Finish, Free
  <2>3. TailOK'
    BY <1>0, <1>9 DEF NoMemory, TailOK, LinksOK, Appending, Finish
  <2>4. NobodyBeyond'
    BY <1>0, <1>9 DEF NoMemory, NobodyBeyond, LinksOK, Appending, Finish, Free
  <2>5. SearchesOK'
    BY <1>0, <1>9 DEF NoMemory, SearchesOK, Appending, Finish, AtEvent
  <2>6. UniqueIds'
    BY <1>0, <1>9 DEF NoMemory, UniqueIds, Finish
  <2> QED BY <2>1, <2>2, <2>3, <2>4, <2>5, <2>6
<1>10. ASSUME NEW t \in Threads, GetFound(t), exited' = exited PROVE Inv'
  <2>1. TypeOK'
    BY ResultTypes, <1>10 DEF GetFound, TypeOK, Finish
  <2>2. LinksOK'
    BY <1>0, <1>10 DEF GetFound, LinksOK, Appending, Finish, Free
  <2>3. TailOK'
    BY <1>0, <1>10 DEF GetFound, TailOK, LinksOK, Appending, Finish
  <2>4. NobodyBeyond'
    BY <1>0, <1>10 DEF GetFound, NobodyBeyond, LinksOK, Appending, Finish, Free
  <2>5. SearchesOK'
    BY <1>0, <1>10 DEF GetFound, SearchesOK, Appending, Finish, AtEvent
  <2>6. UniqueIds'
    BY <1>0, <1>10 DEF GetFound, UniqueIds, Finish
  <2> QED BY <2>1, <2>2, <2>3, <2>4, <2>5, <2>6
<1>11. ASSUME NEW t \in Threads, GetAdvance(t), exited' = exited PROVE Inv'
  <2>1. TypeOK'
    BY ResultTypes, <1>11 DEF GetAdvance, TypeOK, Finish
  <2>2. LinksOK'
    BY <1>0, <1>11 DEF GetAdvance, LinksOK, Appending, Finish, Free
  <2>3. TailOK'
    BY <1>0, <1>11 DEF GetAdvance, TailOK, LinksOK, Appending, Finish
  <2>4. NobodyBeyond'
    BY <1>0, <1>11 DEF GetAdvance, NobodyBeyond, LinksOK, Appending, Finish, Free
  <2>5. SearchesOK'
    BY <1>0, <1>11 DEF GetAdvance, SearchesOK, Appending, Finish, AtEvent
  <2>6. UniqueIds'
    BY <1>0, <1>11 DEF GetAdvance, UniqueIds, Finish
  <2> QED BY <2>1, <2>2, <2>3, <2>4, <2>5, <2>6
<1>12. ASSUME NEW t \in Threads, GetMissing(t), exited' = exited PROVE Inv'
  <2>1. TypeOK'
    BY ResultTypes, <1>12 DEF GetMissing, TypeOK, Finish
  <2>2. LinksOK'
    BY <1>0, <1>12 DEF GetMissing, LinksOK, Appending, Finish, Free
  <2>3. TailOK'
    BY <1>0, <1>12 DEF GetMissing, TailOK, LinksOK, Appending, Finish
  <2>4. NobodyBeyond'
    BY <1>0, <1>12 DEF GetMissing, NobodyBeyond, LinksOK, Appending, Finish, Free
  <2>5. SearchesOK'
    BY <1>0, <1>12 DEF GetMissing, SearchesOK, Appending, Finish, AtEvent
  <2>6. UniqueIds'
    BY <1>0, <1>12 DEF GetMissing, UniqueIds, Finish
  <2> QED BY <2>1, <2>2, <2>3, <2>4, <2>5, <2>6
<1>13. ASSUME NEW t \in Threads, ListAdvance(t), exited' = exited PROVE Inv'
  <2>1. TypeOK'
    BY ResultTypes, <1>13 DEF ListAdvance, TypeOK, Finish
  <2>2. LinksOK'
    BY <1>0, <1>13 DEF ListAdvance, LinksOK, Appending, Finish, Free
  <2>3. TailOK'
    BY <1>0, <1>13 DEF ListAdvance, TailOK, LinksOK, Appending, Finish
  <2>4. NobodyBeyond'
    BY <1>0, <1>13 DEF ListAdvance, NobodyBeyond, LinksOK, Appending, Finish, Free
  <2>5. SearchesOK'
    BY <1>0, <1>13 DEF ListAdvance, SearchesOK, Appending, Finish, AtEvent
  <2>6. UniqueIds'
    BY <1>0, <1>13 DEF ListAdvance, UniqueIds, Finish
  <2> QED BY <2>1, <2>2, <2>3, <2>4, <2>5, <2>6
<1>14. ASSUME NEW t \in Threads, ListEnd(t), exited' = exited PROVE Inv'
  <2>1. TypeOK'
    <3>1. [kind |-> "listed", ids |-> seen[t]] \in Results
      BY <1>0 DEF Results
    <3> QED BY <1>14, <3>1 DEF ListEnd, TypeOK, Finish
  <2>2. LinksOK'
    BY <1>0, <1>14 DEF ListEnd, LinksOK, Appending, Finish, Free
  <2>3. TailOK'
    BY <1>0, <1>14 DEF ListEnd, TailOK, LinksOK, Appending, Finish
  <2>4. NobodyBeyond'
    BY <1>0, <1>14 DEF ListEnd, NobodyBeyond, LinksOK, Appending, Finish, Free
  <2>5. SearchesOK'
    BY <1>0, <1>14 DEF ListEnd, SearchesOK, Appending, Finish, AtEvent
  <2>6. UniqueIds'
    BY <1>0, <1>14 DEF ListEnd, UniqueIds, Finish
  <2> QED BY <2>1, <2>2, <2>3, <2>4, <2>5, <2>6
<1>15. ASSUME NEW t \in Threads, Return(t), exited' = exited PROVE Inv'
  <2>1. TypeOK'
    BY ResultTypes, <1>15 DEF Return, TypeOK, Finish
  <2>2. LinksOK'
    BY <1>0, <1>15 DEF Return, LinksOK, Appending, Finish, Free
  <2>3. TailOK'
    BY <1>0, <1>15 DEF Return, TailOK, LinksOK, Appending, Finish
  <2>4. NobodyBeyond'
    BY <1>0, <1>15 DEF Return, NobodyBeyond, LinksOK, Appending, Finish, Free
  <2>5. SearchesOK'
    BY <1>0, <1>15 DEF Return, SearchesOK, Appending, Finish, AtEvent
  <2>6. UniqueIds'
    BY <1>0, <1>15 DEF Return, UniqueIds, Finish
  <2> QED BY <2>1, <2>2, <2>3, <2>4, <2>5, <2>6
<1>16. CASE UNCHANGED <<evs, tail, lock, pc, cmd, pos, seen, res, left>> /\ exited' \in BOOLEAN
  BY <1>16 DEF TypeOK, LinksOK, TailOK, NobodyBeyond, SearchesOK, UniqueIds
<1>17. CASE UNCHANGED vars
  BY <1>16, <1>17 DEF vars, TypeOK
<1>18. ASSUME NEW t \in Threads, Step(t) PROVE Inv'
  <2>1. CASE SelfDeadlock(t)
    BY <1>16, <2>1 DEF SelfDeadlock
  <2>2. CASE ~ SelfDeadlock(t)
    <3>1. exited' = exited
      BY <1>18, <2>2 DEF Step
    <3> QED BY <1>18, <2>2, <1>1, <1>2, <1>3, <1>4, <1>5, <1>6, <1>7, <1>8, <1>9, <1>10, <1>11, <1>12, <1>13, <1>14, <1>15 DEF Step
  <2> QED BY <2>1, <2>2
<1> QED
  BY <1>17, <1>18 DEF Next

\* The protocol of the locks keeps its invariant in every reachable state.
THEOREM Invariance == Spec => []Inv
<1>1. Init => Inv
  <2> SUFFICES ASSUME Init PROVE Inv
    OBVIOUS
  <2>1. evs = <<>> /\ Len(evs) = 0 /\ evs \in Seq(Ids) /\ DOMAIN evs = {} /\ tail = 0
    BY DEF Init
  <2>2. TypeOK
    <3>1. cmd \in [Threads -> Commands]
      BY DEF Init, Commands
    <3>2. res \in [Threads -> Results]
      BY ResultTypes DEF Init, Nothing
    <3>3. <<>> \in Seq(Ids)
      BY <2>1
    <3>4. seen \in [Threads -> Seq(Ids)]
      BY <3>3 DEF Init
    <3>5. left \in [Threads -> Nat] /\ pos \in [Threads -> 0 .. Len(evs)]
      BY <2>1, OpsAssumption DEF Init
    <3>6. lock \in [Threads -> Nat \cup {Unlocked}] /\ tail \in Nat /\ exited \in BOOLEAN
      BY DEF Init
    <3>7. pc \in [Threads -> {"idle", "bscan", "append", "settail", "unlock", "scan", "list", "done"}]
      BY DEF Init
    <3> QED BY <2>1, <3>1, <3>2, <3>4, <3>5, <3>6, <3>7 DEF TypeOK
  <2>3. LinksOK /\ TailOK /\ NobodyBeyond /\ SearchesOK /\ UniqueIds
    BY <2>1 DEF Init, LinksOK, TailOK, NobodyBeyond, SearchesOK, UniqueIds, Appending, Unlocked
  <2> QED BY <2>2, <2>3 DEF Inv
<1>2. Inv /\ [Next]_vars => Inv'
  BY StepInv
<1> QED BY <1>1, <1>2, PTL DEF Spec

\* Type correctness of the list, for any threads, ids and commands: no walk leaves the list.
THEOREM TypeCorrect == Spec => []TypeOK
<1>1. Inv => TypeOK
  BY DEF Inv
<1> QED BY <1>1, Invariance, PTL

\* Two CREATE of the same id never make two events.
THEOREM IdsAreUnique == Spec => []UniqueIds
<1>1. Inv => UniqueIds
  BY DEF Inv
<1> QED BY <1>1, Invariance, PTL

\* append_to_list finds what its comment expects, whoever calls it.
THEOREM AppendsAreAtTail == Spec => []AppendsAtTail
<1>1. Inv => AppendsAtTail
  <2> SUFFICES ASSUME Inv, NEW t \in Threads, pc[t] = "append"
               PROVE  /\ lock[t] = Len(evs) /\ tail = Len(evs)
                      /\ \A u \in Threads \ {t} : pc[u] \notin Appending
    BY DEF AppendsAtTail, Appending
  <2>1. \A u \in Threads : pc[u] \in Appending => lock[u] # Unlocked /\ lock[u] = pos[u]
    BY DEF Inv, TypeOK, LinksOK, Unlocked
  <2>2. \A u \in Threads \ {t} : pc[u] \notin Appending
    BY <2>1 DEF Inv, LinksOK, Appending
  <2>3. tail = Len(evs)
    BY <2>2 DEF Inv, TailOK, Appending
  <2> QED BY <2>1, <2>2, <2>3 DEF Inv, LinksOK, Appending
<1> QED BY <1>1, Invariance, PTL

\* LinkNode adds one node at the end.
LEMMA LinkAppends ==
  ASSUME Inv, NEW t \in Threads, LinkNode(t)
  PROVE  evs' = Append(evs, cmd[t].id) /\ cmd[t].id \in Ids
<1>1. pc[t] = "append" /\ cmd[t].id \in Ids
  BY DEF LinkNode, Inv, SearchesOK, Appending
<1>2. \A u \in Threads : pc[u] \in Appending => lock[u] # Unlocked /\ lock[u] = pos[u]
  BY DEF Inv, TypeOK, LinksOK, Unlocked
<1>3. tail = Len(evs)
  BY <1>1, <1>2 DEF Inv, LinksOK, TailOK, Appending
<1>4. SubSeq(evs, 1, Len(evs)) = evs
  BY SubSeqFull DEF Inv, TypeOK
<1> QED BY <1>1, <1>3, <1>4 DEF LinkNode

\* What each step does to the nodes.
LEMMA StepNodes ==
  ASSUME Inv, [Next]_vars
  PROVE  \/ evs' = evs
         \/ \E t \in Threads : LinkNode(t) /\ evs' = Append(evs, cmd[t].id) /\ cmd[t].id \in Ids
<1>2. ASSUME NEW t \in Threads, Step(t), ~ LinkNode(t) PROVE evs' = evs
  BY <1>2 DEF Step, SelfDeadlock, Call, BlockingFound, BlockingAdvance, BlockingLast, SetTail,
              UnlockOld, AppendFails, NoMemory, GetFound, GetAdvance, GetMissing, ListAdvance,
              ListEnd, Return
<1> QED BY LinkAppends, <1>2 DEF Next, vars

\* No append overwrites an event.
THEOREM EventsAreKept == Spec => EventsStay
<1>1. Inv /\ [Next]_vars => [Len(evs) <= Len(evs') /\ SubSeq(evs', 1, Len(evs)) = evs]_vars
  <2> SUFFICES ASSUME Inv, [Next]_vars
               PROVE  Len(evs) <= Len(evs') /\ SubSeq(evs', 1, Len(evs)) = evs
    OBVIOUS
  <2>1. evs \in Seq(Ids) /\ Len(evs) \in Nat /\ SubSeq(evs, 1, Len(evs)) = evs
    BY SubSeqFull DEF Inv, TypeOK
  <2>2. ASSUME NEW id \in Ids, evs' = Append(evs, id)
        PROVE  Len(evs) <= Len(evs') /\ SubSeq(evs', 1, Len(evs)) = evs
    BY <2>1, <2>2, SubSeqOfAppend, AppendProperties
  <2> QED BY <2>1, <2>2, StepNodes
<1> QED BY <1>1, Invariance, PTL DEF Spec, EventsStay

(***************************************************************************)
(* The list implements the atomic operations                               *)
(***************************************************************************)

\* The value of the mapping of op at each place of the program.
LEMMA OpValues ==
  ASSUME NEW p, NEW c, NEW r
  PROVE  /\ p = "idle" => OpOf(p, c, r) = Atomic!Idle
         /\ p \in {"bscan", "append", "scan", "list"} => OpOf(p, c, r) = Atomic!Called(c)
         /\ p \in {"settail", "unlock"} => OpOf(p, c, r) = Atomic!Done([kind |-> "created"])
         /\ p = "done" => OpOf(p, c, r) = Atomic!Done(r)
BY DEF OpOf, Atomic!Idle, Atomic!Called, Atomic!Done

\* A step of t touches the locals of t and of nobody else.
OnlyMoves(t) ==
  /\ pc' = [pc EXCEPT ![t] = pc'[t]] /\ cmd' = [cmd EXCEPT ![t] = cmd'[t]]
  /\ res' = [res EXCEPT ![t] = res'[t]]

\* Then only the operation of t can change.
LEMMA OpFrame ==
  ASSUME TypeOK, NEW t \in Threads, OnlyMoves(t)
  PROVE  /\ absOp' = [absOp EXCEPT ![t] = OpOf(pc'[t], cmd'[t], res'[t])]
         /\ absOp[t] = OpOf(pc[t], cmd[t], res[t])
         /\ OpOf(pc'[t], cmd'[t], res'[t]) = absOp[t] => absOp' = absOp
<1>1. \A u \in Threads \ {t} : pc'[u] = pc[u] /\ cmd'[u] = cmd[u] /\ res'[u] = res[u]
  BY DEF OnlyMoves, TypeOK
<1> QED BY <1>1 DEF absOp

\* Every step is a step of the atomic operations, or changes nothing they see.
LEMMA StepRefines == ASSUME Inv, Inv', [Next]_vars PROVE [Atomic!Next]_(Atomic!vars)
<1> USE DEF Atomic!vars, Atomic!Next
<1>0. TypeOK /\ evs \in Seq(Ids) /\ DOMAIN evs = 1 .. Len(evs) /\ Len(evs) \in Nat
      /\ pos \in [Threads -> Nat] /\ \A t \in Threads : pos[t] <= Len(evs)
  BY LenProperties DEF Inv, TypeOK
<1>1. ASSUME NEW t \in Threads, Call(t) PROVE Atomic!Call(t)
  <2>1. PICK c \in Commands : cmd' = [cmd EXCEPT ![t] = c] /\ pc' = [pc EXCEPT ![t] = Entry[c.kind]]
    BY <1>1 DEF Call
  <2>2. pc[t] = "idle" /\ pc'[t] \in {"bscan", "scan", "list"} /\ cmd'[t] = c /\ UNCHANGED <<evs, res>>
    BY <1>0, <1>1, <2>1 DEF Call, TypeOK, Commands, Entry
  <2>3. OnlyMoves(t)
    BY <1>0, <1>1, <2>1 DEF Call, OnlyMoves, TypeOK
  <2>4. absOp[t] = Atomic!Idle /\ absOp' = [absOp EXCEPT ![t] = Atomic!Called(c)]
    BY <1>0, <2>2, <2>3, OpFrame, OpValues
  <2> QED BY <2>2, <2>4 DEF Atomic!Call
<1>2. ASSUME NEW t \in Threads, BlockingFound(t) PROVE Atomic!Create(t)
  <2>1. pc[t] = "bscan" /\ pc'[t] = "done" /\ res'[t] = [kind |-> "exists"] /\ UNCHANGED <<evs, cmd>>
        /\ OnlyMoves(t)
    BY <1>0, <1>2 DEF BlockingFound, Finish, TypeOK, OnlyMoves
  <2>2. absOp[t] = Atomic!Called(cmd[t]) /\ Atomic!Answer(t, "exists")
    BY <1>0, <2>1, OpFrame, OpValues DEF Atomic!Answer
  <2>3. cmd[t].kind = "create" /\ Atomic!Exists(cmd[t].id)
    BY <1>0, <1>2, <2>1 DEF BlockingFound, AtEvent, Inv, SearchesOK, Atomic!Exists
  <2> QED BY <2>1, <2>2, <2>3 DEF Atomic!Create, Atomic!Called
<1>3. ASSUME NEW t \in Threads, BlockingAdvance(t) \/ GetAdvance(t) \/ ListAdvance(t) \/ SelfDeadlock(t)
      PROVE  UNCHANGED Atomic!vars
  BY <1>3 DEF BlockingAdvance, GetAdvance, ListAdvance, SelfDeadlock, absOp
<1>4. ASSUME NEW t \in Threads, BlockingLast(t) \/ SetTail(t) PROVE UNCHANGED Atomic!vars
  <2>1. /\ UNCHANGED <<evs, cmd, res>> /\ OnlyMoves(t)
        /\ (pc[t] = "bscan" /\ pc'[t] = "append") \/ (pc[t] = "settail" /\ pc'[t] = "unlock")
    BY <1>0, <1>4 DEF BlockingLast, SetTail, TypeOK, OnlyMoves
  <2> QED BY <1>0, <2>1, OpFrame, OpValues
<1>5. ASSUME NEW t \in Threads, LinkNode(t) PROVE Atomic!Create(t)
  <2>1. pc[t] = "append" /\ pc'[t] = "settail" /\ UNCHANGED <<cmd, res>> /\ OnlyMoves(t)
    BY <1>0, <1>5 DEF LinkNode, TypeOK, OnlyMoves
  <2>2. absOp[t] = Atomic!Called(cmd[t]) /\ Atomic!Answer(t, "created")
    BY <1>0, <2>1, OpFrame, OpValues DEF Atomic!Answer
  <2>3. cmd[t].kind = "create" /\ ~ Atomic!Exists(cmd[t].id)
    BY <1>0, <2>1 DEF Inv, SearchesOK, Appending, Atomic!Exists
  <2>4. evs' = Append(evs, cmd[t].id)
    BY <1>5, LinkAppends
  <2> QED BY <2>2, <2>3, <2>4 DEF Atomic!Create, Atomic!Called
<1>6. ASSUME NEW t \in Threads, UnlockOld(t) PROVE UNCHANGED Atomic!vars
  <2>1. /\ UNCHANGED <<evs, cmd>> /\ OnlyMoves(t)
        /\ pc[t] = "unlock" /\ pc'[t] = "done" /\ res'[t] = [kind |-> "created"]
    BY <1>0, <1>6 DEF UnlockOld, Finish, TypeOK, OnlyMoves
  <2> QED BY <1>0, <2>1, OpFrame, OpValues
<1>7. ASSUME NEW t \in Threads, AppendFails(t) \/ NoMemory(t) PROVE Atomic!Fail(t)
  <2>1. /\ UNCHANGED <<evs, cmd>> /\ OnlyMoves(t) /\ AllocMayFail
        /\ pc[t] \in {"append", "bscan", "list"} /\ pc'[t] = "done" /\ res'[t] = [kind |-> "failed"]
    BY <1>0, <1>7 DEF AppendFails, NoMemory, Finish, TypeOK, OnlyMoves
  <2>2. absOp[t] = Atomic!Called(cmd[t]) /\ Atomic!Answer(t, "failed")
    BY <1>0, <2>1, OpFrame, OpValues DEF Atomic!Answer
  <2> QED BY <2>1, <2>2 DEF Atomic!Fail, Atomic!Called
<1>8. ASSUME NEW t \in Threads, GetFound(t) PROVE Atomic!Get(t)
  <2>1. pc[t] = "scan" /\ pc'[t] = "done" /\ res'[t] = [kind |-> "found"] /\ UNCHANGED <<evs, cmd>>
        /\ OnlyMoves(t)
    BY <1>0, <1>8 DEF GetFound, Finish, TypeOK, OnlyMoves
  <2>2. absOp[t] = Atomic!Called(cmd[t]) /\ Atomic!Answer(t, "found")
    BY <1>0, <2>1, OpFrame, OpValues DEF Atomic!Answer
  <2>3. cmd[t].kind = "get" /\ Atomic!Exists(cmd[t].id)
    BY <1>0, <1>8, <2>1 DEF GetFound, AtEvent, Inv, SearchesOK, Atomic!Exists
  <2> QED BY <2>1, <2>2, <2>3 DEF Atomic!Get, Atomic!Called
<1>9. ASSUME NEW t \in Threads, GetMissing(t) PROVE Atomic!Get(t)
  <2>1. pc[t] = "scan" /\ pc'[t] = "done" /\ res'[t] = [kind |-> "missing"] /\ UNCHANGED <<evs, cmd>>
        /\ OnlyMoves(t)
    BY <1>0, <1>9 DEF GetMissing, Finish, TypeOK, OnlyMoves
  <2>2. absOp[t] = Atomic!Called(cmd[t]) /\ Atomic!Answer(t, "missing")
    BY <1>0, <2>1, OpFrame, OpValues DEF Atomic!Answer
  <2>3. cmd[t].kind = "get" /\ \A i \in 1 .. Len(evs) : evs[i] # cmd[t].id
    BY <1>0, <1>9, <2>1 DEF GetMissing, AtEvent, Inv, SearchesOK
  <2>4. ~ Atomic!Exists(cmd[t].id)
    BY <1>0, <2>3 DEF Atomic!Exists
  <2> QED BY <2>1, <2>2, <2>3, <2>4 DEF Atomic!Get, Atomic!Called
<1>10. ASSUME NEW t \in Threads, ListEnd(t) PROVE Atomic!List(t)
  <2>1. /\ pc[t] = "list" /\ pc'[t] = "done" /\ res'[t] = [kind |-> "listed", ids |-> seen[t]]
        /\ UNCHANGED <<evs, cmd>> /\ OnlyMoves(t) /\ pos[t] = Len(evs)
    BY <1>0, <1>10 DEF ListEnd, Finish, TypeOK, OnlyMoves
  <2>2. cmd[t].kind = "list" /\ seen[t] = evs
    BY <1>0, <2>1, SubSeqFull DEF Inv, SearchesOK
  <2>3. /\ absOp[t] = Atomic!Called(cmd[t])
        /\ absOp' = [absOp EXCEPT ![t] = Atomic!Done([kind |-> "listed", ids |-> evs])]
    BY <1>0, <2>1, <2>2, OpFrame, OpValues
  <2> QED BY <2>1, <2>2, <2>3 DEF Atomic!List, Atomic!Called
<1>11. ASSUME NEW t \in Threads, Return(t) PROVE Atomic!Return(t)
  <2>1. pc[t] = "done" /\ pc'[t] = "idle" /\ UNCHANGED <<evs, cmd, res>> /\ OnlyMoves(t)
    BY <1>0, <1>11 DEF Return, TypeOK, OnlyMoves
  <2>2. absOp[t] = Atomic!Done(res[t]) /\ absOp' = [absOp EXCEPT ![t] = Atomic!Idle]
    BY <1>0, <2>1, OpFrame, OpValues
  <2> QED BY <2>1, <2>2 DEF Atomic!Return, Atomic!Done
<1>12. CASE UNCHANGED vars
  BY <1>12 DEF vars, absOp
<1> QED
  BY <1>1, <1>2, <1>3, <1>4, <1>5, <1>6, <1>7, <1>8, <1>9, <1>10, <1>11, <1>12 DEF Next, Step

\* CREATE, searches and LIST are atomic, for any number of threads and of events.
THEOREM Refinement == Spec => AtomicOperations
<1>1. Init => Atomic!Init
  BY OpValues DEF Init, absOp, Atomic!Init
<1>2. Inv /\ Inv' /\ [Next]_vars => [Atomic!Next]_(Atomic!vars)
  BY StepRefines
<1> QED
  BY <1>1, <1>2, Invariance, PTL DEF Spec, AtomicOperations, Atomic!Spec
==============================================================================
