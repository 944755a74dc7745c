-------------------------- MODULE AuditChainProofs --------------------------
(***************************************************************************)
(* Theorems about AuditChain, for every set of sessions and contents and   *)
(* every length of the chain.                                              *)
(***************************************************************************)
EXTENDS AuditChain, SequenceTheorems, TLAPS

USE AuditNoneAssumption

(* A sequence over some set is a sequence over its elements.               *)
LEMMA SeqIsSeq == ASSUME NEW S, NEW t \in Seq(S) PROVE IsSeq(t)
  BY DEF IsSeq

(* Appending a row to a sequence of rows.                                  *)
LEMMA AppendSeq ==
  ASSUME NEW s, IsSeq(s), NEW x
  PROVE  /\ IsSeq(Append(s, x))
         /\ Len(Append(s, x)) = Len(s) + 1
         /\ \A i \in 1..Len(s) : Append(s, x)[i] = s[i]
         /\ Append(s, x)[Len(s) + 1] = x
<1> DEFINE S == {s[i] : i \in DOMAIN s}
           t == Append(s, x)
<1>1. s \in Seq(S \cup {x}) /\ t \in Seq(S \cup {x})
  BY DEF IsSeq
<1>2. Len(t) = Len(s) + 1 /\ DOMAIN t = 1..Len(t) /\ Len(s) \in Nat
  BY <1>1
<1>3. (\A i \in 1..Len(s) : t[i] = s[i]) /\ t[Len(s) + 1] = x
  BY <1>1
<1>4. IsSeq(t)
  BY <1>1, SeqIsSeq
<1> QED BY <1>2, <1>3, <1>4

(* Concatenating the committed rows and those of a transaction.            *)
LEMMA ConcatSeq ==
  ASSUME NEW s, IsSeq(s), NEW u, IsSeq(u)
  PROVE  /\ IsSeq(s \o u)
         /\ \A x : Append(s \o u, x) = s \o Append(u, x)
<1> DEFINE S == {s[i] : i \in DOMAIN s} \cup {u[i] : i \in DOMAIN u}
           t == s \o u
<1>1. s \in Seq(S) /\ u \in Seq(S) /\ t \in Seq(S)
  BY DEF IsSeq
<1>2. IsSeq(t)
  BY <1>1, SeqIsSeq
<1>3. ASSUME NEW x PROVE Append(s \o u, x) = s \o Append(u, x)
  <2>1. s \in Seq(S \cup {x}) /\ u \in Seq(S \cup {x})
    BY <1>1
  <2> QED BY <2>1
<1> QED BY <1>2, <1>3

(* A row that extends the head of a verified chain gives a verified chain  *)
(* with the head that append writes.                                       *)
LEMMA Extension ==
  ASSUME NEW s, IsSeq(s), NEW h, VerifyRows(s, h), NEW row,
         row.sequence = h.sequence + 1, row.previous = h.hash,
         row.hash = EventHash(row)
  PROVE  VerifyRows(Append(s, row), HeadOf(row))
<1> DEFINE t == Append(s, row)
<1>1. /\ Len(t) = Len(s) + 1 /\ Len(s) \in Nat
      /\ \A i \in 1..Len(s) : t[i] = s[i]
      /\ t[Len(s) + 1] = row
  BY AppendSeq DEF IsSeq
<1>2. h.sequence = Len(s) /\ h.hash = Previous(s, Len(s) + 1)
  BY DEF VerifyRows
<1> HIDE DEF t
<1>3. \A i \in 1..Len(s) + 1 : Previous(t, i) = Previous(s, i)
  BY <1>1 DEF Previous
<1>4. ASSUME NEW i \in 1..Len(t)
      PROVE  /\ t[i].sequence = i /\ t[i].previous = Previous(t, i)
             /\ EventHash(t[i]) = t[i].hash
  <2>1. CASE i \in 1..Len(s)
    BY <2>1, <1>1, <1>3 DEF VerifyRows
  <2>2. CASE i = Len(s) + 1
    BY <2>2, <1>1, <1>2, <1>3
  <2> QED BY <2>1, <2>2, <1>1
<1>5. HeadOf(row) = [sequence |-> Len(t), hash |-> Previous(t, Len(t) + 1)]
  BY <1>1, <1>2 DEF HeadOf, Previous
<1>6. VerifyRows(t, HeadOf(row))
  BY <1>4, <1>5 DEF VerifyRows
<1> QED BY <1>6 DEF t

(* The initial states satisfy the inductive invariant.                     *)
LEMMA InitIInv == Init => IInv
<1> SUFFICES ASSUME Init PROVE IInv
  OBVIOUS
<1>1. LockInv
  BY DEF Init, LockInv, IdleWriter
<1>2. IsSeq(events) /\ VerifyRows(events, head)
  BY DEF Init, IsSeq, VerifyRows, Previous, NoHead
<1>3. WriterInv
  BY DEF Init, WriterInv, IdleWriter
<1>4. VerifierInv
  BY DEF Init, VerifierInv, IdleVerifier
<1> QED BY <1>1, <1>2, <1>3, <1>4 DEF IInv

(* What a step of one writer must show: its own record, and that the       *)
(* committed rows and the verifiers are left alone.                        *)
LEMMA WriterStep ==
  ASSUME IInv, NEW w \in Writers, UNCHANGED <<events, head, verifier, damage>>,
         lock \in {None, w},
         lock' = IF writer'[w].phase = "idle" THEN None ELSE w,
         DOMAIN writer' = Writers,
         \A x \in Writers \ {w} : writer'[x] = writer[x],
         DOMAIN writer'[w] = {"phase", "head", "row", "added"},
         writer'[w].phase = "idle" => writer'[w].added = <<>>,
         damage = "none" /\ writer'[w].phase # "idle" => OpenInv(w)'
  PROVE  IInv'
<1>1. LockInv'
  BY DEF IInv, LockInv
<1>2. VerifierInv' /\ (damage' = "none" => IsSeq(events') /\ VerifyRows(events', head'))
  BY DEF IInv, VerifierInv
<1>3. \A x \in Writers \ {w} : OpenInv(x)' <=> OpenInv(x)
  BY DEF OpenInv
<1>4. WriterInv'
  BY <1>3 DEF IInv, WriterInv
<1> QED BY <1>1, <1>2, <1>4 DEF IInv

(* append's SELECT ... FOR UPDATE.                                         *)
LEMMA LockHeadStep ==
  ASSUME IInv, NEW w \in Writers, LockHead(w)
  PROVE  IInv'
<1>1. /\ writer'[w].phase = "locked" /\ writer'[w].added = writer[w].added
      /\ writer'[w].head = IF writer[w].phase = "idle" THEN head ELSE writer[w].head
      /\ DOMAIN writer'[w] = {"phase", "head", "row", "added"}
      /\ DOMAIN writer' = Writers
      /\ \A x \in Writers \ {w} : writer'[x] = writer[x]
  BY DEF IInv, WriterInv, LockHead
<1>2. ASSUME damage = "none" PROVE OpenInv(w)'
  <2>1. CASE writer[w].phase = "idle"
    <3>1. writer'[w].added = <<>> /\ writer'[w].head = head
      BY <2>1, <1>1 DEF IInv, WriterInv
    <3>2. events \o <<>> = events /\ IsSeq(<<>>)
      BY <1>2 DEF IInv, IsSeq
    <3>3. VerifyRows(events, head)
      BY <1>2 DEF IInv
    <3>4. events' = events /\ head' = head
      BY DEF LockHead
    <3> DEFINE t == writer'[w]
    <3>5. t.phase = "locked" /\ t.added = <<>> /\ t.head = head
      BY <1>1, <3>1
    <3> HIDE DEF t
    <3>6. /\ IsSeq(t.added) /\ t.head = head' /\ VerifyRows(events' \o t.added, t.head)
          /\ t.phase # "inserted"
      BY <3>2, <3>3, <3>4, <3>5
    <3> QED BY <3>6 DEF t, OpenInv
  <2>2. CASE writer[w].phase # "idle"
    BY <2>2, <1>1, <1>2 DEF IInv, WriterInv, LockHead, OpenInv
  <2> QED BY <2>1, <2>2
<1> QED BY <1>1, <1>2, WriterStep DEF LockHead

(* append's INSERT, with the trigger that compares with the head.          *)
LEMMA InsertStep ==
  ASSUME IInv, NEW w \in Writers, NEW c \in Contents, Insert(w, c)
  PROVE  IInv'
<1> DEFINE row == NewRow(writer[w].head, c)
<1>1. /\ writer'[w].phase = "inserted" /\ writer'[w].added = writer[w].added
      /\ writer'[w].head = writer[w].head /\ writer'[w].row = row
      /\ DOMAIN writer'[w] = {"phase", "head", "row", "added"}
      /\ DOMAIN writer' = Writers
      /\ \A x \in Writers \ {w} : writer'[x] = writer[x]
  BY DEF IInv, WriterInv, Insert
<1>2. /\ row.sequence = writer[w].head.sequence + 1 /\ row.previous = writer[w].head.hash
      /\ row.hash = EventHash(row)
  BY DEF NewRow, EventHash
<1>3. ASSUME damage = "none" PROVE OpenInv(w)'
  <2> HIDE DEF row
  <2>1. OpenInv(w)
    BY <1>3 DEF IInv, WriterInv, Insert
  <2> QED BY <2>1, <1>1, <1>2 DEF Insert, OpenInv
<1> QED BY <1>1, <1>3, WriterStep DEF Insert

(* append's UPDATE of the head.                                            *)
LEMMA AdvanceHeadStep ==
  ASSUME IInv, NEW w \in Writers, AdvanceHead(w)
  PROVE  IInv'
<1> DEFINE t == writer[w]
<1>1. /\ writer'[w].phase = "appended" /\ writer'[w].added = Append(t.added, t.row)
      /\ writer'[w].head = HeadOf(t.row)
      /\ DOMAIN writer'[w] = {"phase", "head", "row", "added"}
      /\ DOMAIN writer' = Writers
      /\ \A x \in Writers \ {w} : writer'[x] = writer[x]
  BY DEF IInv, WriterInv, AdvanceHead
<1>2. lock = w
  BY DEF IInv, LockInv, AdvanceHead
<1>3. ASSUME damage = "none" PROVE OpenInv(w)'
  <2>1. OpenInv(w) /\ IsSeq(events)
    BY <1>3 DEF IInv, WriterInv, AdvanceHead
  <2>2. /\ IsSeq(t.added) /\ VerifyRows(events \o t.added, t.head)
        /\ t.row.sequence = t.head.sequence + 1 /\ t.row.previous = t.head.hash
        /\ t.row.hash = EventHash(t.row)
    BY <2>1 DEF OpenInv, AdvanceHead
  <2> HIDE DEF t
  <2>3. IsSeq(events \o t.added)
    BY <2>1, <2>2, ConcatSeq
  <2>4. VerifyRows(Append(events \o t.added, t.row), HeadOf(t.row))
    BY <2>2, <2>3, Extension
  <2>5. Append(events \o t.added, t.row) = events \o Append(t.added, t.row)
    BY <2>1, <2>2, ConcatSeq
  <2>6. IsSeq(Append(t.added, t.row)) /\ Len(Append(t.added, t.row)) = Len(t.added) + 1
    BY <2>2, AppendSeq
  <2>7. Append(t.added, t.row) # <<>>
    BY <2>2, <2>6 DEF IsSeq
  <2> QED BY <1>1, <2>4, <2>5, <2>6, <2>7 DEF AdvanceHead, OpenInv
<1> QED BY <1>1, <1>2, <1>3, WriterStep DEF AdvanceHead

(* The transaction ends without a commit.                                  *)
LEMMA AbortStep ==
  ASSUME IInv, NEW w \in Writers, Abort(w)
  PROVE  IInv'
<1>1. lock = w
  BY DEF IInv, LockInv, Abort
<1>2. /\ writer'[w] = IdleWriter /\ DOMAIN writer' = Writers
      /\ \A x \in Writers \ {w} : writer'[x] = writer[x]
  BY DEF IInv, WriterInv, Abort
<1>3. /\ DOMAIN IdleWriter = {"phase", "head", "row", "added"}
      /\ IdleWriter.phase = "idle" /\ IdleWriter.added = <<>>
  BY DEF IdleWriter
<1> QED BY <1>1, <1>2, <1>3, WriterStep DEF Abort

(* The transaction's rows and head become the committed ones.  No other    *)
(* session holds the head, so no other transaction has read the old one.   *)
LEMMA CommitStep ==
  ASSUME IInv, NEW w \in Writers, Commit(w)
  PROVE  IInv'
<1>1. /\ writer'[w] = IdleWriter /\ DOMAIN writer' = Writers
      /\ \A x \in Writers \ {w} : writer'[x] = writer[x]
  BY DEF IInv, WriterInv, Commit
<1>2. /\ DOMAIN IdleWriter = {"phase", "head", "row", "added"}
      /\ IdleWriter.phase = "idle" /\ IdleWriter.added = <<>>
  BY DEF IdleWriter
<1>3. \A x \in Writers : writer'[x].phase = "idle"
  BY <1>1, <1>2 DEF IInv, LockInv, Commit
<1>4. LockInv'
  BY <1>3 DEF LockInv, Commit
<1>5. WriterInv'
  BY <1>1, <1>2, <1>3 DEF IInv, WriterInv
<1>6. VerifierInv'
  BY DEF IInv, VerifierInv, Commit
<1>7. ASSUME damage' = "none" PROVE IsSeq(events') /\ VerifyRows(events', head')
  <2>1. OpenInv(w) /\ IsSeq(events)
    BY <1>7 DEF IInv, WriterInv, Commit
  <2> QED BY <2>1, ConcatSeq DEF OpenInv, Commit
<1> QED BY <1>4, <1>5, <1>6, <1>7 DEF IInv

(* verify_chain, whose second query belongs to the snapshot of the first.  *)
LEMMA VerifyStep ==
  ASSUME IInv, NEW v \in Verifiers, Verify(v)
  PROVE  IInv'
<1>1. UNCHANGED <<events, head, lock, writer, damage>>
  BY DEF Verify, ReadRows, ReadHead
<1>2. LockInv' /\ (damage' = "none" => IsSeq(events') /\ VerifyRows(events', head'))
  BY <1>1 DEF IInv, LockInv
<1>3. WriterInv'
  <2>1. \A x \in Writers : OpenInv(x)' <=> OpenInv(x)
    BY <1>1 DEF OpenInv
  <2> QED BY <1>1, <2>1 DEF IInv, WriterInv
<1>4. VerifierInv'
  <2>1. CASE ReadRows(v)
    BY <2>1 DEF IInv, VerifierInv, ReadRows
  <2>2. CASE ReadHead(v)
    BY <2>2 DEF IInv, VerifierInv, ReadHead, SnapshotHead
  <2> QED BY <2>1, <2>2 DEF Verify
<1> QED BY <1>2, <1>3, <1>4 DEF IInv

(* Damage in the store ends what is promised of the chain, and changes no  *)
(* session.                                                                *)
LEMMA DamageStep ==
  ASSUME IInv, damage' # "none", UNCHANGED <<lock, writer, verifier>>
  PROVE  IInv'
<1>1. LockInv' /\ VerifierInv'
  BY DEF IInv, LockInv, VerifierInv
<1>2. WriterInv'
  BY DEF IInv, WriterInv
<1> QED BY <1>1, <1>2 DEF IInv

(* Every step preserves the inductive invariant.                           *)
LEMMA NextIInv == IInv /\ [Next]_vars => IInv'
<1> SUFFICES ASSUME IInv, [Next]_vars PROVE IInv'
  OBVIOUS
<1>1. ASSUME NEW w \in Writers, Write(w) PROVE IInv'
  BY <1>1, LockHeadStep, InsertStep, AdvanceHeadStep, CommitStep, AbortStep DEF Write
<1>2. ASSUME NEW v \in Verifiers, Verify(v) PROVE IInv'
  BY <1>2, VerifyStep
<1>3. ASSUME NEW i \in 1..Len(events), DamageRow(i) \/ LoseRow(i) PROVE IInv'
  BY <1>3, DamageStep DEF DamageRow, LoseRow
<1>4. CASE DamageHead
  BY <1>4, DamageStep DEF DamageHead
<1>5. CASE UNCHANGED vars
  <2>1. \A x \in Writers : OpenInv(x)' <=> OpenInv(x)
    BY <1>5 DEF OpenInv, vars
  <2>2. WriterInv' /\ VerifierInv' /\ LockInv'
    BY <1>5, <2>1 DEF IInv, WriterInv, VerifierInv, LockInv, vars
  <2> QED BY <1>5, <2>2 DEF IInv, vars
<1> QED BY <1>1, <1>2, <1>3, <1>4, <1>5 DEF Next

(* The inductive invariant holds in every reachable state.                 *)
THEOREM AuditInvariance == Spec => []IInv
<1> QED BY InitIInv, NextIInv, PTL DEF Spec

(* Unless the store is damaged, the committed rows are at all times one    *)
(* gap-free hash chain that ends at the committed head.                    *)
THEOREM IntactChain == Spec => []ChainIntact
<1>1. IInv => ChainIntact
  BY DEF IInv, ChainIntact
<1> QED BY <1>1, AuditInvariance, PTL

(* verify_chain reports no break of an undamaged chain, whatever is        *)
(* appended between its queries.                                           *)
THEOREM TrueAlarms == Spec => []NoFalseAlarm
<1>1. IInv => NoFalseAlarm
  BY DEF IInv, VerifierInv, NoFalseAlarm
<1> QED BY <1>1, AuditInvariance, PTL

-----------------------------------------------------------------------------
(* Damage is never healed: the invariant behind DamageDetected, beside     *)
(* IInv, which says nothing of a damaged chain.                            *)

IsHead(h) == h.sequence \in Nat /\ h = [sequence |-> h.sequence, hash |-> h.hash]

(* The first row of an open transaction extends the committed head,        *)
(* damaged or not: the head cannot be damaged unseen while it is locked.   *)
FirstLink(w) ==
    LET t == writer[w] IN
    /\ IsSeq(t.added) /\ IsHead(t.head)
    /\ t.added = <<>> => t.head = head
    /\ t.added # <<>> => /\ t.added[1].sequence = head.sequence + 1
                         /\ t.added[1].previous = head.hash

(* A damaged chain does not verify, nor does any snapshot taken of it.     *)
DamageInv ==
    /\ IsSeq(events) /\ IsHead(head)
    /\ damage # "none" => ~VerifyRows(events, head)
    /\ \A w \in Writers : writer[w].phase # "idle" => FirstLink(w)
    /\ \A v \in Verifiers :
          /\ verifier[v].phase = "reading" /\ verifier[v].since # "none"
                => ~VerifyRows(verifier[v].rows, verifier[v].head)
          /\ verifier[v].verdict = "pass" => verifier[v].since = "none"

DInv == TypeOK /\ DamageInv

(* Rows that extend a head verify only if the rows up to that head do.     *)
LEMMA NotHealed ==
  ASSUME NEW s, IsSeq(s), NEW u, IsSeq(u), NEW h, IsHead(h), NEW g,
         u = <<>> => g = h,
         u # <<>> => u[1].sequence = h.sequence + 1 /\ u[1].previous = h.hash,
         VerifyRows(s \o u, g)
  PROVE  VerifyRows(s, h)
<1> DEFINE S == {s[i] : i \in DOMAIN s} \cup {u[i] : i \in DOMAIN u}
           t == s \o u
           n == Len(s)
<1>1. s \in Seq(S) /\ u \in Seq(S)
  BY DEF IsSeq
<1>2. /\ n \in Nat /\ Len(t) = n + Len(u) /\ Len(u) \in Nat
      /\ \A i \in 1..n + Len(u) : t[i] = IF i <= n THEN s[i] ELSE u[i - n]
  BY <1>1, ConcatProperties, LenProperties
<1>3. CASE u = <<>>
  BY <1>1, <1>3, ConcatEmptySeq
<1>4. CASE u # <<>>
  <2>1. Len(u) >= 1
    BY <1>1, <1>4, EmptySeq
  <2>2. (\A i \in 1..n : t[i] = s[i]) /\ t[n + 1] = u[1] /\ n + 1 \in 1..Len(t)
    BY <1>2, <2>1
  <2>3. \A i \in 1..n + 1 : Previous(t, i) = Previous(s, i)
    BY <1>2, <2>2 DEF Previous
  <2> HIDE DEF t
  <2>4. u[1].sequence = n + 1 /\ u[1].previous = Previous(s, n + 1)
    BY <2>2, <2>3, <1>2 DEF VerifyRows, t
  <2>5. h = [sequence |-> n, hash |-> Previous(s, n + 1)]
    BY <2>4, <1>4, <1>2 DEF IsHead
  <2>6. \A i \in 1..n : /\ s[i].sequence = i /\ s[i].previous = Previous(s, i)
                         /\ EventHash(s[i]) = s[i].hash
    <3> SUFFICES ASSUME NEW i \in 1..n
                 PROVE  /\ s[i].sequence = i /\ s[i].previous = Previous(s, i)
                        /\ EventHash(s[i]) = s[i].hash
      OBVIOUS
    <3>1. i \in 1..Len(t) /\ i \in 1..n + 1 /\ t[i] = s[i]
      BY <1>2, <2>2
    <3> QED BY <3>1, <2>3 DEF VerifyRows, t
  <2> QED BY <2>5, <2>6 DEF VerifyRows
<1> QED BY <1>3, <1>4

(* No row of a verified chain follows a garbled hash.                      *)
LEMMA PreviousIsHash ==
  ASSUME NEW s, NEW h, VerifyRows(s, h), NEW i \in 1..Len(s), Len(s) \in Nat
  PROVE  s[i].previous # Garbled
<1>1. s[i].previous = Previous(s, i)
  BY DEF VerifyRows
<1>2. CASE i = 1
  BY <1>1, <1>2 DEF Previous, GENESIS_HASH, Garbled
<1>3. CASE i # 1
  <2>1. i - 1 \in 1..Len(s) /\ s[i].previous = s[i - 1].hash
    BY <1>1, <1>3 DEF Previous
  <2>2. s[i].previous = EventHash(s[i - 1])
    BY <2>1 DEF VerifyRows
  <2> QED BY <2>2 DEF EventHash, Garbled
<1> QED BY <1>2, <1>3

(* One row of a verified chain is damaged: its own hash gives it away.     *)
LEMMA DamagedRowFails ==
  ASSUME NEW s, IsSeq(s), NEW h, VerifyRows(s, h), NEW i \in 1..Len(s), IsRow(s[i]),
         NEW row \in Damaged(s[i])
  PROVE  LET t == [s EXCEPT ![i] = row]
         IN  /\ IsSeq(t) /\ Len(t) = Len(s) /\ IsRow(row) /\ t[i] = row
             /\ \A j \in 1..Len(s) : j # i => t[j] = s[j]
             /\ ~VerifyRows(t, h)
<1> DEFINE t == [s EXCEPT ![i] = row]
           S == {s[j] : j \in DOMAIN s} \cup {row}
           old == s[i]
<1>1. s \in Seq(S) /\ Len(s) \in Nat
  BY DEF IsSeq
<1>2. /\ t \in Seq(S) /\ Len(t) = Len(s) /\ t[i] = row
      /\ \A j \in 1..Len(s) : j # i => t[j] = s[j]
  BY <1>1, ExceptSeq
<1>3. EventHash(old) = old.hash /\ old.previous # Garbled
  BY <1>1, PreviousIsHash DEF VerifyRows
<1>4. IsRow(row) /\ EventHash(row) # row.hash
  <2> HIDE DEF old
  <2>0. /\ DOMAIN old = {"sequence", "content", "previous", "hash"}
        /\ old.sequence \in Nat \ {0} /\ old.content \in Contents
    BY DEF IsRow, old
  <2>1. CASE \E c \in Contents \ {old.content} : row = [old EXCEPT !.content = c]
    BY <2>0, <2>1, <1>3 DEF IsRow, EventHash
  <2>2. CASE row = [old EXCEPT !.previous = Garbled]
    BY <2>0, <2>2, <1>3 DEF IsRow, EventHash
  <2>3. CASE row = [old EXCEPT !.hash = Garbled]
    BY <2>0, <2>3, <1>3 DEF IsRow, EventHash, Garbled
  <2> QED BY <2>1, <2>2, <2>3 DEF Damaged, old
<1> HIDE DEF t
<1>5. ~VerifyRows(t, h)
  BY <1>1, <1>2, <1>4 DEF VerifyRows
<1>6. IsSeq(t)
  BY <1>2, SeqIsSeq
<1>7. /\ IsSeq(t) /\ Len(t) = Len(s) /\ IsRow(row) /\ t[i] = row
      /\ \A j \in 1..Len(s) : j # i => t[j] = s[j]
      /\ ~VerifyRows(t, h)
  BY <1>2, <1>4, <1>5, <1>6
<1> QED BY <1>7 DEF t

(* The rows that are left when one is lost.                                *)
LEMMA WithoutRow ==
  ASSUME NEW s, IsSeq(s), NEW i \in 1..Len(s)
  PROVE  LET t == SubSeq(s, 1, i - 1) \o SubSeq(s, i + 1, Len(s))
         IN  /\ IsSeq(t) /\ Len(t) = Len(s) - 1
             /\ \A j \in 1..Len(t) : t[j] = s[j] \/ t[j] = s[j + 1]
<1> DEFINE S == {s[j] : j \in DOMAIN s}
           a == SubSeq(s, 1, i - 1)
           b == SubSeq(s, i + 1, Len(s))
           t == a \o b
<1>1. s \in Seq(S) /\ Len(s) \in Nat /\ \A j \in 1..Len(s) : s[j] \in S
  BY DEF IsSeq
<1>2. a \in Seq(S) /\ Len(a) = i - 1 /\ \A j \in 1..i - 1 : a[j] = s[j]
  BY <1>1, SubSeqProperties
<1>3. b \in Seq(S) /\ Len(b) = Len(s) - i /\ \A j \in 1..Len(s) - i : b[j] = s[i + j]
  <2>1. /\ b \in Seq(S)
        /\ Len(b) = IF i + 1 <= Len(s) THEN Len(s) - (i + 1) + 1 ELSE 0
        /\ \A j \in 1..Len(s) - (i + 1) + 1 : b[j] = s[(i + 1) + j - 1]
    BY <1>1, SubSeqProperties
  <2> QED BY <1>1, <2>1
<1> HIDE DEF a, b, t
<1>4. /\ t \in Seq(S) /\ Len(t) = Len(s) - 1
      /\ \A j \in 1..Len(s) - 1 : t[j] = IF j < i THEN s[j] ELSE s[j + 1]
  <2>1. /\ t \in Seq(S) /\ Len(t) = Len(a) + Len(b)
        /\ \A j \in 1..Len(a) + Len(b) : t[j] = IF j <= Len(a) THEN a[j] ELSE b[j - Len(a)]
    BY <1>2, <1>3, ConcatProperties DEF t
  <2>2. ASSUME NEW j \in 1..Len(s) - 1 PROVE t[j] = IF j < i THEN s[j] ELSE s[j + 1]
    <3>0. t[j] = IF j <= i - 1 THEN a[j] ELSE b[j - Len(a)]
      <4>1. Len(a) + Len(b) = Len(s) - 1 /\ Len(a) = i - 1
        BY <1>1, <1>2, <1>3
      <4> QED BY <4>1, <2>1
    <3>1. CASE j < i
      <4>1. j <= i - 1 /\ j \in 1..i - 1
        BY <3>1, <1>1
      <4> QED BY <4>1, <3>0, <3>1, <1>2
    <3>2. CASE ~(j < i)
      <4>1. j - Len(a) \in 1..Len(s) - i /\ i + (j - Len(a)) = j + 1
        BY <3>2, <1>1, <1>2
      <4>2. t[j] = b[j - Len(a)]
        BY <3>0, <3>2, <1>1
      <4> QED BY <4>1, <4>2, <3>2, <1>3
    <3> QED BY <3>1, <3>2
  <2>3. Len(t) = Len(s) - 1
    BY <1>1, <1>2, <1>3, <2>1
  <2> QED BY ONLY <2>1, <2>2, <2>3
<1>6. IsSeq(t)
  BY <1>4, SeqIsSeq
<1>7. ASSUME NEW j \in 1..Len(t) PROVE t[j] = s[j] \/ t[j] = s[j + 1]
  BY <1>4
<1>8. /\ IsSeq(t) /\ Len(t) = Len(s) - 1
      /\ \A j \in 1..Len(t) : t[j] = s[j] \/ t[j] = s[j + 1]
  BY <1>4, <1>6, <1>7
<1> QED BY <1>8 DEF t, a, b

(* A chain and its head cannot verify any more when rows are lost or added *)
(* without the head: the head counts them.                                 *)
LEMMA HeadCounts ==
  ASSUME NEW s, NEW h, VerifyRows(s, h), NEW t, VerifyRows(t, h)
  PROVE  Len(s) = Len(t)
<1>1. h.sequence = Len(s)
  BY DEF VerifyRows
<1>2. h.sequence = Len(t)
  BY DEF VerifyRows
<1> QED BY <1>1, <1>2

(* The initial states satisfy it.                                          *)
LEMMA InitDInv == Init => DInv
<1> SUFFICES ASSUME Init PROVE DInv
  OBVIOUS
<1>1. TypeOK
  BY DEF Init, TypeOK, NoHead, IdleWriter, IdleVerifier
<1>2. IsSeq(events) /\ IsHead(head)
  BY DEF Init, IsSeq, IsHead, NoHead
<1>3. DamageInv
  BY <1>2 DEF Init, DamageInv, IdleWriter, IdleVerifier
<1> QED BY <1>1, <1>3 DEF DInv

(* What a step of one writer must show when it commits nothing.            *)
LEMMA DamageWriterStep ==
  ASSUME IInv, DInv, NEW w \in Writers, UNCHANGED <<events, head, verifier, damage>>,
         lock \in {None, w},
         lock' = IF writer'[w].phase = "idle" THEN None ELSE w,
         DOMAIN writer' = Writers,
         \A x \in Writers \ {w} : writer'[x] = writer[x],
         writer'[w].phase \in {"idle", "locked", "inserted", "appended"},
         writer'[w].phase = "inserted" => IsRow(writer'[w].row),
         \A i \in 1..Len(writer'[w].added) : IsRow(writer'[w].added[i]),
         writer'[w].phase # "idle" => FirstLink(w)'
  PROVE  DInv'
<1>1. TypeOK'
  BY DEF DInv, TypeOK
<1>2. \A x \in Writers \ {w} : FirstLink(x)' <=> FirstLink(x)
  BY DEF FirstLink
<1>3. DamageInv'
  BY <1>2 DEF DInv, DamageInv
<1> QED BY <1>1, <1>3 DEF DInv

(* append's SELECT ... FOR UPDATE.                                         *)
LEMMA DamageLockHead ==
  ASSUME IInv, DInv, NEW w \in Writers, LockHead(w)
  PROVE  DInv'
<1>1. /\ writer'[w].phase = "locked" /\ writer'[w].added = writer[w].added
      /\ writer'[w].head = IF writer[w].phase = "idle" THEN head ELSE writer[w].head
      /\ DOMAIN writer' = Writers
      /\ \A x \in Writers \ {w} : writer'[x] = writer[x]
  BY DEF IInv, WriterInv, LockHead
<1>2. \A i \in 1..Len(writer'[w].added) : IsRow(writer'[w].added[i])
  BY <1>1 DEF DInv, TypeOK
<1>3. FirstLink(w)'
  <2>1. CASE writer[w].phase = "idle"
    <3>1. writer'[w].added = <<>> /\ writer'[w].head = head /\ IsSeq(<<>>)
      BY <2>1, <1>1 DEF IInv, WriterInv, IsSeq
    <3>2. IsHead(head) /\ head' = head
      BY DEF DInv, DamageInv, LockHead
    <3> QED BY <3>1, <3>2 DEF FirstLink
  <2>2. CASE writer[w].phase # "idle"
    BY <2>2, <1>1 DEF DInv, DamageInv, LockHead, FirstLink
  <2> QED BY <2>1, <2>2
<1> QED BY <1>1, <1>2, <1>3, DamageWriterStep DEF LockHead

(* append's INSERT.                                                        *)
LEMMA DamageInsert ==
  ASSUME IInv, DInv, NEW w \in Writers, NEW c \in Contents, Insert(w, c)
  PROVE  DInv'
<1> DEFINE row == NewRow(writer[w].head, c)
<1>1. /\ writer'[w].phase = "inserted" /\ writer'[w].added = writer[w].added
      /\ writer'[w].head = writer[w].head /\ writer'[w].row = row
      /\ DOMAIN writer' = Writers
      /\ \A x \in Writers \ {w} : writer'[x] = writer[x]
  BY DEF IInv, WriterInv, Insert
<1>2. FirstLink(w) /\ FirstLink(w)'
  BY <1>1 DEF DInv, DamageInv, Insert, FirstLink
<1>3. IsRow(row)
  BY <1>2 DEF FirstLink, IsHead, NewRow, IsRow
<1>4. \A i \in 1..Len(writer'[w].added) : IsRow(writer'[w].added[i])
  BY <1>1 DEF DInv, TypeOK
<1> HIDE DEF row
<1> QED BY <1>1, <1>2, <1>3, <1>4, DamageWriterStep DEF Insert

(* append's UPDATE of the head: the first row must extend the committed    *)
(* head, which tg_audit_chain_head_guard compares.                         *)
LEMMA DamageAdvanceHead ==
  ASSUME IInv, DInv, NEW w \in Writers, AdvanceHead(w)
  PROVE  DInv'
<1> DEFINE t == writer[w]
           u == Append(t.added, t.row)
<1>1. /\ writer'[w].phase = "appended" /\ writer'[w].added = u
      /\ writer'[w].head = HeadOf(t.row)
      /\ DOMAIN writer' = Writers
      /\ \A x \in Writers \ {w} : writer'[x] = writer[x]
  BY DEF IInv, WriterInv, AdvanceHead
<1>2. lock = w /\ IsRow(t.row) /\ \A i \in 1..Len(t.added) : IsRow(t.added[i])
  BY DEF DInv, TypeOK, AdvanceHead
<1>3. FirstLink(w) /\ IsSeq(t.added)
  BY DEF DInv, DamageInv, AdvanceHead, FirstLink
<1>4. /\ IsSeq(u) /\ Len(u) = Len(t.added) + 1 /\ u[Len(t.added) + 1] = t.row
      /\ \A i \in 1..Len(t.added) : u[i] = t.added[i]
      /\ Len(t.added) \in Nat
  <2>1. Len(t.added) \in Nat
    BY <1>3 DEF IsSeq
  <2> HIDE DEF t
  <2> QED BY <1>3, <2>1, AppendSeq
<1>5. IsHead(HeadOf(t.row))
  BY <1>2 DEF IsHead, HeadOf, IsRow
<1>6. u # <<>> /\ \A i \in 1..Len(u) : IsRow(u[i])
  <2>1. u # <<>>
    BY <1>4
  <2> HIDE DEF u, t
  <2>2. ASSUME NEW i \in 1..Len(u) PROVE IsRow(u[i])
    <3>1. CASE i = Len(t.added) + 1
      BY <3>1, <1>2, <1>4
    <3>2. CASE i # Len(t.added) + 1
      BY <3>2, <1>2, <1>4
    <3> QED BY <3>1, <3>2
  <2> QED BY <2>1, <2>2
<1>7. u[1].sequence = head.sequence + 1 /\ u[1].previous = head.hash
  <2>1. CASE t.added = <<>>
    <3>1. Len(t.added) = 0
      BY <2>1
    <3>2. u[1] = t.row
      BY <3>1, <1>4
    <3> QED BY <2>1, <3>2 DEF AdvanceHead, HeadFor
  <2>2. CASE t.added # <<>>
    <3>1. Len(t.added) >= 1
      BY <2>2, <1>3, <1>4 DEF FirstLink, IsSeq
    <3>2. u[1] = t.added[1]
      BY <3>1, <1>4
    <3> QED BY <2>2, <3>2, <1>3 DEF FirstLink
  <2> QED BY <2>1, <2>2
<1>8. UNCHANGED <<events, head, lock, verifier, damage>>
  BY DEF AdvanceHead
<1> HIDE DEF u
<1>9. FirstLink(w)'
  BY <1>1, <1>4, <1>5, <1>6, <1>7, <1>8 DEF FirstLink
<1> QED BY <1>1, <1>2, <1>6, <1>8, <1>9, DamageWriterStep

(* The transaction ends without a commit.                                  *)
LEMMA DamageAbort ==
  ASSUME IInv, DInv, NEW w \in Writers, Abort(w)
  PROVE  DInv'
<1>1. lock = w
  BY DEF DInv, TypeOK, Abort
<1>2. /\ writer'[w] = IdleWriter /\ DOMAIN writer' = Writers
      /\ \A x \in Writers \ {w} : writer'[x] = writer[x]
  BY DEF IInv, WriterInv, Abort
<1>3. IdleWriter.phase = "idle" /\ \A i \in 1..Len(IdleWriter.added) : IsRow(IdleWriter.added[i])
  BY DEF IdleWriter
<1> QED BY <1>1, <1>2, <1>3, DamageWriterStep DEF Abort

(* A commit to a damaged chain leaves it damaged.                          *)
LEMMA DamageCommit ==
  ASSUME IInv, DInv, NEW w \in Writers, Commit(w)
  PROVE  DInv'
<1> DEFINE t == writer[w]
<1>1. /\ writer'[w] = IdleWriter /\ DOMAIN writer' = Writers
      /\ \A x \in Writers \ {w} : writer'[x] = writer[x]
  BY DEF IInv, WriterInv, Commit
<1>2. IdleWriter.phase = "idle" /\ IdleWriter.added = <<>> /\ Len(<<>>) = 0
  BY DEF IdleWriter
<1>3. /\ events' = events \o t.added /\ head' = t.head /\ lock' = None
      /\ UNCHANGED <<verifier, damage>> /\ t.phase # "idle"
  BY DEF Commit
<1>4. \A x \in Writers : writer'[x].phase = "idle"
  BY <1>1, <1>2, <1>3 DEF DInv, TypeOK
<1>5. FirstLink(w) /\ IsSeq(events) /\ IsHead(head)
  BY <1>3 DEF DInv, DamageInv
<1>6. IsSeq(t.added) /\ IsHead(t.head)
  BY <1>5 DEF FirstLink
<1> HIDE DEF t
<1>7. IsSeq(events') /\ IsHead(head')
  BY <1>3, <1>5, <1>6, ConcatSeq
<1>8. \A i \in 1..Len(events') : IsRow(events'[i])
  <2> DEFINE S == {events[i] : i \in DOMAIN events} \cup {t.added[i] : i \in DOMAIN t.added}
  <2>1. events \in Seq(S) /\ t.added \in Seq(S)
    BY <1>5, <1>6 DEF IsSeq
  <2>2. /\ Len(events') = Len(events) + Len(t.added)
        /\ \A i \in 1..Len(events) + Len(t.added) :
              events'[i] = IF i <= Len(events) THEN events[i] ELSE t.added[i - Len(events)]
        /\ Len(events) \in Nat /\ Len(t.added) \in Nat
    BY <1>3, <2>1, ConcatProperties, LenProperties
  <2>3. /\ \A i \in 1..Len(events) : IsRow(events[i])
        /\ \A i \in 1..Len(t.added) : IsRow(t.added[i])
    BY DEF DInv, TypeOK, t
  <2> SUFFICES ASSUME NEW i \in 1..Len(events') PROVE IsRow(events'[i])
    OBVIOUS
  <2>4. CASE i <= Len(events)
    <3>1. i \in 1..Len(events) /\ events'[i] = events[i]
      BY <2>2, <2>4
    <3> QED BY <3>1, <2>3
  <2>5. CASE ~(i <= Len(events))
    <3>1. i - Len(events) \in 1..Len(t.added) /\ events'[i] = t.added[i - Len(events)]
      BY <2>2, <2>5
    <3> QED BY <3>1, <2>3
  <2> QED BY <2>4, <2>5
<1>9. ASSUME damage' # "none" PROVE ~VerifyRows(events', head')
  <2>1. ~VerifyRows(events, head)
    BY <1>3, <1>9 DEF DInv, DamageInv
  <2>2. /\ t.added = <<>> => t.head = head
        /\ t.added # <<>> => t.added[1].sequence = head.sequence + 1 /\ t.added[1].previous = head.hash
    BY <1>5 DEF FirstLink, t
  <2> QED BY <2>1, <2>2, <1>3, <1>5, <1>6, NotHealed
<1>10. TypeOK'
  <2>1. head'.sequence \in Nat
    BY <1>7 DEF IsHead
  <2>2. \A x \in Writers : \A i \in 1..Len(writer'[x].added) : IsRow(writer'[x].added[i])
    BY <1>1, <1>2 DEF DInv, TypeOK
  <2> QED BY <1>1, <1>3, <1>4, <1>8, <2>1, <2>2 DEF DInv, TypeOK
<1>11. DamageInv'
  BY <1>3, <1>4, <1>7, <1>9 DEF DInv, DamageInv
<1> QED BY <1>10, <1>11 DEF DInv

(* verify_chain takes a snapshot that fails if the chain is damaged.       *)
LEMMA DamageVerify ==
  ASSUME IInv, DInv, NEW v \in Verifiers, Verify(v)
  PROVE  DInv'
<1>1. UNCHANGED <<events, head, lock, writer, damage>>
  BY DEF Verify, ReadRows, ReadHead
<1>2. \A x \in Writers : FirstLink(x)' <=> FirstLink(x)
  BY <1>1 DEF FirstLink
<1>3. CASE ReadRows(v)
  <2>1. TypeOK'
    BY <1>1, <1>3 DEF DInv, TypeOK, ReadRows
  <2>2. DamageInv'
    BY <1>1, <1>2, <1>3 DEF DInv, TypeOK, DamageInv, ReadRows
  <2> QED BY <2>1, <2>2 DEF DInv
<1>4. CASE ReadHead(v)
  <2> DEFINE t == verifier[v]
  <2>1. /\ verifier'[v].phase = "idle" /\ verifier'[v].since = t.since
        /\ verifier'[v].verdict = IF VerifyRows(t.rows, t.head) THEN "pass" ELSE "broken"
        /\ t.phase = "reading" /\ DOMAIN verifier' = Verifiers
        /\ \A x \in Verifiers \ {v} : verifier'[x] = verifier[x]
    BY <1>4 DEF IInv, VerifierInv, ReadHead, SnapshotHead
  <2>2. t.since # "none" => ~VerifyRows(t.rows, t.head)
    BY <2>1 DEF DInv, DamageInv
  <2> HIDE DEF t
  <2>3. TypeOK'
    BY <1>1, <2>1 DEF DInv, TypeOK
  <2>4. DamageInv'
    BY <1>1, <1>2, <2>1, <2>2 DEF DInv, DamageInv
  <2> QED BY <2>3, <2>4 DEF DInv
<1> QED BY <1>3, <1>4 DEF Verify

(* What damage must show: the damaged chain does not verify, and a session *)
(* that holds the head still extends it.                                   *)
LEMMA DamageHappens ==
  ASSUME IInv, DInv, damage' \in {"row", "head"}, UNCHANGED <<lock, writer, verifier>>,
         IsSeq(events'), IsHead(head'), ~VerifyRows(events', head'),
         \A i \in 1..Len(events') : IsRow(events'[i]),
         head' = head \/ lock = None
  PROVE  DInv'
<1>1. TypeOK'
  BY DEF DInv, TypeOK, IsHead
<1>2. \A w \in Writers : writer[w].phase # "idle" => FirstLink(w)'
  <2>1. CASE head' = head
    BY <2>1 DEF DInv, DamageInv, FirstLink
  <2>2. CASE lock = None
    BY <2>2 DEF DInv, TypeOK
  <2> QED BY <2>1, <2>2
<1>3. DamageInv'
  BY <1>2 DEF DInv, DamageInv
<1> QED BY <1>1, <1>3 DEF DInv

(* A row, a lost row and a head: what can be damaged.                      *)
LEMMA DamageOfRow ==
  ASSUME IInv, DInv, NEW i \in 1..Len(events), DamageRow(i)
  PROVE  DInv'
<1>1. PICK row \in Damaged(events[i]) : events' = [events EXCEPT ![i] = row]
  BY DEF DamageRow
<1>2. IsSeq(events) /\ VerifyRows(events, head)
  BY DEF IInv, DamageRow
<1>3. \A j \in 1..Len(events) : IsRow(events[j])
  BY DEF DInv, TypeOK
<1>4. /\ IsSeq(events') /\ Len(events') = Len(events) /\ IsRow(row) /\ events'[i] = row
      /\ \A j \in 1..Len(events) : j # i => events'[j] = events[j]
      /\ ~VerifyRows(events', head)
  <2> DEFINE t == [events EXCEPT ![i] = row]
  <2>1. /\ IsSeq(t) /\ Len(t) = Len(events) /\ IsRow(row) /\ t[i] = row
        /\ \A j \in 1..Len(events) : j # i => t[j] = events[j]
        /\ ~VerifyRows(t, head)
    <3>1. IsRow(events[i])
      BY <1>3
    <3> HIDE DEF t
    <3> QED BY <3>1, <1>2, DamagedRowFails, Zenon DEF t
  <2>2. events' = t
    BY <1>1
  <2> HIDE DEF t
  <2> QED BY <2>1, <2>2
<1>5. \A j \in 1..Len(events') : IsRow(events'[j])
  BY <1>3, <1>4
<1>6. head' = head /\ IsHead(head) /\ damage' = "row" /\ UNCHANGED <<lock, writer, verifier>>
  BY DEF DInv, DamageInv, DamageRow
<1> QED BY <1>4, <1>5, <1>6, DamageHappens

(* The same for a lost row.                                                *)
LEMMA DamageByLoss ==
  ASSUME IInv, DInv, NEW i \in 1..Len(events), LoseRow(i)
  PROVE  DInv'
<1>1. IsSeq(events) /\ VerifyRows(events, head) /\ Len(events) \in Nat
  BY DEF IInv, LoseRow, IsSeq
<1>2. /\ IsSeq(events') /\ Len(events') = Len(events) - 1
      /\ \A j \in 1..Len(events') : events'[j] = events[j] \/ events'[j] = events[j + 1]
  BY <1>1, WithoutRow DEF LoseRow
<1>3. \A j \in 1..Len(events') : IsRow(events'[j])
  <2>1. \A j \in 1..Len(events) : IsRow(events[j])
    BY DEF DInv, TypeOK
  <2>2. ASSUME NEW j \in 1..Len(events') PROVE IsRow(events'[j])
    <3>1. j \in 1..Len(events) /\ j + 1 \in 1..Len(events)
      BY <1>1, <1>2
    <3> QED BY <3>1, <2>1, <1>2
  <2> QED BY <2>2
<1>4. head' = head /\ IsHead(head) /\ damage' = "row" /\ UNCHANGED <<lock, writer, verifier>>
  BY DEF DInv, DamageInv, LoseRow
<1>5. ~VerifyRows(events', head')
  <2>1. Len(events') # Len(events)
    BY <1>1, <1>2
  <2> QED BY <2>1, <1>1, <1>4, HeadCounts
<1> QED BY <1>2, <1>3, <1>4, <1>5, DamageHappens

(* The same for the head, which is not locked then.                        *)
LEMMA DamageOfHead ==
  ASSUME IInv, DInv, DamageHead
  PROVE  DInv'
<1>1. /\ IsSeq(events) /\ VerifyRows(events, head) /\ events' = events /\ IsHead(head)
      /\ damage' = "head" /\ UNCHANGED <<lock, writer, verifier>> /\ lock = None
  BY DEF IInv, DInv, DamageInv, DamageHead
<1>2. \A j \in 1..Len(events') : IsRow(events'[j])
  BY <1>1 DEF DInv, TypeOK
<1>3. head = [sequence |-> Len(events), hash |-> Previous(events, Len(events) + 1)]
  BY <1>1 DEF VerifyRows
<1>4. CASE \E n \in 0..MAX_EVENTS : n # head.sequence /\ head' = [head EXCEPT !.sequence = n]
  <2>1. PICK n \in 0..MAX_EVENTS : n # head.sequence /\ head' = [head EXCEPT !.sequence = n]
    BY <1>4
  <2>2. head' = [sequence |-> n, hash |-> head.hash] /\ n \in Nat
    BY <2>1, <1>1, EventsAssumption DEF IsHead
  <2>3. IsHead(head') /\ head'.sequence # Len(events)
    BY <2>1, <2>2, <1>3 DEF IsHead
  <2>4. ~VerifyRows(events', head')
    BY <2>3, <1>1 DEF VerifyRows
  <2> QED BY <2>3, <2>4, <1>1, <1>2, DamageHappens
<1>5. CASE head' = [head EXCEPT !.hash = Garbled]
  <2>1. head' = [sequence |-> head.sequence, hash |-> Garbled] /\ IsHead(head')
    BY <1>5, <1>1 DEF IsHead
  <2>2. Previous(events, Len(events) + 1) # Garbled
    <3>1. CASE Len(events) = 0
      BY <3>1 DEF Previous, GENESIS_HASH, Garbled
    <3>2. CASE Len(events) # 0
      <4>1. Len(events) \in 1..Len(events) /\ Len(events) \in Nat
        BY <3>2, <1>1 DEF IsSeq
      <4>2. Previous(events, Len(events) + 1) = events[Len(events)].hash
        BY <4>1 DEF Previous
      <4>3. events[Len(events)].hash = EventHash(events[Len(events)])
        BY <4>1, <1>1 DEF VerifyRows
      <4>4. \A a, b, c : <<a, b, c>> # Garbled
        BY DEF Garbled
      <4> QED BY <4>2, <4>3, <4>4 DEF EventHash
    <3> QED BY <3>1, <3>2
  <2>3. ~VerifyRows(events', head')
    <3>1. head'.hash = Garbled
      BY <2>1
    <3>2. SUFFICES ASSUME VerifyRows(events, head') PROVE FALSE
      BY <1>1
    <3>3. head'.hash = Previous(events, Len(events) + 1)
      BY <3>2 DEF VerifyRows
    <3> QED BY <3>1, <3>3, <2>2
  <2> QED BY <2>1, <2>3, <1>1, <1>2, DamageHappens
<1> QED BY <1>4, <1>5 DEF DamageHead

(* Every step preserves the invariant of damage.                           *)
LEMMA NextDInv == IInv /\ DInv /\ [Next]_vars => DInv'
<1> SUFFICES ASSUME IInv, DInv, [Next]_vars PROVE DInv'
  OBVIOUS
<1>1. ASSUME NEW w \in Writers, Write(w) PROVE DInv'
  BY <1>1, DamageLockHead, DamageInsert, DamageAdvanceHead, DamageCommit, DamageAbort DEF Write
<1>2. ASSUME NEW v \in Verifiers, Verify(v) PROVE DInv'
  BY <1>2, DamageVerify
<1>3. ASSUME NEW i \in 1..Len(events), DamageRow(i) \/ LoseRow(i) PROVE DInv'
  BY <1>3, DamageOfRow, DamageByLoss
<1>4. CASE DamageHead
  BY <1>4, DamageOfHead
<1>5. CASE UNCHANGED vars
  <2>1. \A x \in Writers : FirstLink(x)' <=> FirstLink(x)
    BY <1>5 DEF FirstLink, vars
  <2>2. TypeOK'
    BY <1>5 DEF DInv, TypeOK, vars
  <2>3. DamageInv'
    BY <1>5, <2>1 DEF DInv, DamageInv, vars
  <2> QED BY <2>2, <2>3 DEF DInv
<1> QED BY <1>1, <1>2, <1>3, <1>4, <1>5 DEF Next

(* No later event hides damage: verify_chain passes only chains that were  *)
(* undamaged when it read them, whatever was appended, committed or        *)
(* aborted since a row or the head was damaged or lost.                    *)
THEOREM DamageAlwaysDetected == Spec => []DamageDetected
<1>1. DInv => DamageDetected
  BY DEF DInv, DamageInv, DamageDetected
<1> QED BY <1>1, InitDInv, NextDInv, AuditInvariance, PTL DEF Spec
=============================================================================
