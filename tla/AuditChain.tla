----------------------------- MODULE AuditChain -----------------------------
(***************************************************************************)
(* The governed audit chain: append and verify_chain (audit.py) over the   *)
(* tables and triggers of migration 0002.                                  *)
(*                                                                         *)
(* A member of Writers is a database session that appends in one           *)
(* transaction after another; a transaction may append several events, as  *)
(* the completion of an evaluation does.  A member of Verifiers runs       *)
(* verify_chain again and again.  A step is one SQL statement with the     *)
(* triggers it fires.  SHA-256 is a constructor: equal hashes have equal   *)
(* arguments.                                                              *)
(***************************************************************************)
EXTENDS Naturals, Sequences

CONSTANTS
    Writers,    \* database sessions that append events
    Verifiers,  \* database sessions that verify the chain
    Contents,   \* what an event says: every column append does not compute
    None,       \* SQL NULL, no lock holder
    MAX_EVENTS  \* bound of the model: length of the chain

ASSUME AuditNoneAssumption == None \notin Writers
ASSUME EventsAssumption == MAX_EVENTS \in Nat

VARIABLES
    events,    \* the committed audit_event rows, ORDER BY chain_sequence
    head,      \* the committed audit_chain_head row
    lock,      \* the session that holds the head's row lock
    writer,    \* the writers' transactions
    verifier,  \* the verifiers' transactions
    damage     \* history: what was damaged behind the application's back

vars == <<events, head, lock, writer, verifier, damage>>

GENESIS_HASH == <<>>
Garbled == <<"garbled">>

(* event_hash: the row without its own hash, and the previous hash.        *)
EventHash(row) == <<row.previous, row.sequence, row.content>>

(* The row append builds on the head it has locked.                        *)
NewRow(h, c) ==
    LET row == [sequence |-> h.sequence + 1, content |-> c, previous |-> h.hash]
    IN [sequence |-> row.sequence, content |-> c, previous |-> row.previous,
        hash |-> EventHash(row)]

(* The head that append writes after the row.                              *)
HeadOf(row) == [sequence |-> row.sequence, hash |-> row.hash]

NoHead == [sequence |-> 0, hash |-> GENESIS_HASH]
IdleWriter == [phase |-> "idle", head |-> NoHead, row |-> None, added |-> <<>>]
IdleVerifier == [phase |-> "idle", rows |-> <<>>, head |-> NoHead, since |-> "none",
                 verdict |-> "none"]

Init ==
    /\ events = <<>>
    /\ head = NoHead
    /\ lock = None
    /\ writer = [w \in Writers |-> IdleWriter]
    /\ verifier = [v \in Verifiers |-> IdleVerifier]
    /\ damage = "none"

-----------------------------------------------------------------------------
(* append.                                                                 *)

(* SELECT ... FOR UPDATE of the head.  A session that waited reads the     *)
(* newest committed row; one that appended before reads its own.           *)
LockHead(w) ==
    /\ writer[w].phase \in {"idle", "appended"}
    /\ lock \in {None, w}
    /\ Len(events) + Len(writer[w].added) < MAX_EVENTS
    /\ lock' = w
    /\ writer' = [writer EXCEPT ![w].phase = "locked",
                                ![w].head = IF writer[w].phase = "idle" THEN head ELSE @]
    /\ UNCHANGED <<events, head, verifier, damage>>

(* What the head is to w: its own uncommitted version, or the committed.   *)
HeadFor(w) == IF writer[w].added = <<>> THEN head ELSE writer[w].head

(* uq_audit_event_chain_sequence and ck_audit_event_genesis.               *)
Insertable(row) ==
    /\ \A i \in 1..Len(events) : events[i].sequence # row.sequence
    /\ row.sequence = 1 <=> row.previous = GENESIS_HASH

(* INSERT of the row; tg_audit_event_links_head locks the head again and   *)
(* compares.                                                               *)
Insert(w, c) ==
    LET row == NewRow(writer[w].head, c) IN
    /\ writer[w].phase = "locked"
    /\ lock \in {None, w}
    /\ row.sequence = HeadFor(w).sequence + 1
    /\ row.previous = HeadFor(w).hash
    /\ Insertable(row)
    /\ lock' = w
    /\ writer' = [writer EXCEPT ![w].phase = "inserted", ![w].row = row]
    /\ UNCHANGED <<events, head, verifier, damage>>

(* UPDATE of the head; tg_audit_chain_head_guard lets it advance by one,   *)
(* to the inserted event, only.                                            *)
ForgottenMutant(w) ==
    /\ writer[w].phase = "inserted"
    /\ writer' = [writer EXCEPT ![w].phase = "appended",
                                ![w].added = Append(@, writer[w].row)]
    /\ UNCHANGED <<events, head, lock, verifier, damage>>
AdvanceHead(w) ==
    LET row == writer[w].row IN
    /\ writer[w].phase = "inserted"
    /\ row.sequence = HeadFor(w).sequence + 1
    /\ row.previous = HeadFor(w).hash
    /\ writer' = [writer EXCEPT ![w].phase = "appended",
                                ![w].added = Append(@, row),
                                ![w].head = HeadOf(row)]
    /\ UNCHANGED <<events, head, lock, verifier, damage>>

(* The caller's transaction commits or, for any reason, does not.          *)
Commit(w) ==
    /\ writer[w].phase = "appended"
    /\ events' = events \o writer[w].added
    /\ head' = writer[w].head
    /\ lock' = None
    /\ writer' = [writer EXCEPT ![w] = IdleWriter]
    /\ UNCHANGED <<verifier, damage>>

Abort(w) ==
    /\ writer[w].phase # "idle"
    /\ lock' = IF lock = w THEN None ELSE lock
    /\ writer' = [writer EXCEPT ![w] = IdleWriter]
    /\ UNCHANGED <<events, head, verifier, damage>>

-----------------------------------------------------------------------------
(* verify_chain.                                                           *)

(* verify_rows: genesis, gap-free order, every link and hash, and the head.*)
Previous(rows, i) == IF i = 1 THEN GENESIS_HASH ELSE rows[i - 1].hash
UnhashedMutant(rows, h) ==
    /\ \A i \in 1..Len(rows) : /\ rows[i].sequence = i
                               /\ rows[i].previous = Previous(rows, i)
    /\ h = [sequence |-> Len(rows), hash |-> Previous(rows, Len(rows) + 1)]
VerifyRows(rows, h) ==
    /\ \A i \in 1..Len(rows) : /\ rows[i].sequence = i
                               /\ rows[i].previous = Previous(rows, i)
                               /\ EventHash(rows[i]) = rows[i].hash
    /\ h = [sequence |-> Len(rows), hash |-> Previous(rows, Len(rows) + 1)]

(* The first query reads the rows and fixes the snapshot of the            *)
(* REPEATABLE READ transaction, head included.                             *)
ReadRows(v) ==
    /\ verifier[v].phase = "idle"
    /\ verifier' = [verifier EXCEPT ![v] =
          [phase |-> "reading", rows |-> events, head |-> head, since |-> damage,
           verdict |-> "none"]]
    /\ UNCHANGED <<events, head, lock, writer, damage>>

(* The second query reads the head, in that snapshot.                      *)
CurrentHeadMutant(v) == head
SnapshotHead(v) == verifier[v].head

ReadHead(v) ==
    /\ verifier[v].phase = "reading"
    /\ verifier' = [verifier EXCEPT ![v].phase = "idle",
          ![v].verdict = IF VerifyRows(verifier[v].rows, SnapshotHead(v)) THEN "pass" ELSE "broken"]
    /\ UNCHANGED <<events, head, lock, writer, damage>>

-----------------------------------------------------------------------------
(* One row or the head is damaged or lost in the store itself, where no    *)
(* trigger sees it.  Damage to a version of the head that an open          *)
(* transaction has already replaced is no damage to the chain.             *)
Damaged(row) ==
    {[row EXCEPT !.content = c] : c \in Contents \ {row.content}} \cup
    {[row EXCEPT !.previous = Garbled], [row EXCEPT !.hash = Garbled]}

DamageRow(i) ==
    /\ damage = "none"
    /\ damage' = "row"
    /\ \E row \in Damaged(events[i]) : events' = [events EXCEPT ![i] = row]
    /\ UNCHANGED <<head, lock, writer, verifier>>

LoseRow(i) ==
    /\ damage = "none"
    /\ damage' = "row"
    /\ events' = SubSeq(events, 1, i - 1) \o SubSeq(events, i + 1, Len(events))
    /\ UNCHANGED <<head, lock, writer, verifier>>

DamageHead ==
    /\ damage = "none"
    /\ lock = None
    /\ damage' = "head"
    /\ \/ \E n \in 0..MAX_EVENTS : n # head.sequence /\ head' = [head EXCEPT !.sequence = n]
       \/ head' = [head EXCEPT !.hash = Garbled]
    /\ UNCHANGED <<events, lock, writer, verifier>>

Write(w) ==
    \/ LockHead(w)
    \/ \E c \in Contents : Insert(w, c)
    \/ AdvanceHead(w)
    \/ Commit(w)
    \/ Abort(w)

Verify(v) == ReadRows(v) \/ ReadHead(v)

Next ==
    \/ \E w \in Writers : Write(w)
    \/ \E v \in Verifiers : Verify(v)
    \/ \E i \in 1..Len(events) : DamageRow(i) \/ LoseRow(i)
    \/ DamageHead

Spec == Init /\ [][Next]_vars

-----------------------------------------------------------------------------
(* Properties.                                                             *)

(* A row has the columns append writes.                                    *)
IsRow(row) ==
    /\ DOMAIN row = {"sequence", "content", "previous", "hash"}
    /\ row.sequence \in Nat \ {0}
    /\ row.content \in Contents

(* The variables have their types, and the head's row lock is held exactly *)
(* by the session whose transaction is appending: append locks the head    *)
(* before it reads it and only the end of the transaction lets it go.      *)
TypeOK ==
    /\ \A i \in 1..Len(events) : IsRow(events[i])
    /\ head.sequence \in Nat
    /\ lock \in Writers \cup {None}
    /\ damage \in {"none", "row", "head"}
    /\ DOMAIN writer = Writers /\ DOMAIN verifier = Verifiers
    /\ \A w \in Writers :
          /\ writer[w].phase \in {"idle", "locked", "inserted", "appended"}
          /\ lock = w <=> writer[w].phase # "idle"
          /\ writer[w].phase = "inserted" => IsRow(writer[w].row)
          /\ \A i \in 1..Len(writer[w].added) : IsRow(writer[w].added[i])
    /\ \A v \in Verifiers :
          /\ verifier[v].phase \in {"idle", "reading"}
          /\ verifier[v].verdict \in {"none", "pass", "broken"}

(* Whatever sessions append, commit and abort concurrently, the committed  *)
(* rows are one gap-free chain from genesis that ends at the committed     *)
(* head ("an append must extend the locked head exactly", 0002): no fork,  *)
(* no gap, no event that the head does not count.                          *)
ChainIntact == damage = "none" => VerifyRows(events, head)

(* verify_chain never reports a break of an undamaged chain, although      *)
(* other sessions append and commit between its two queries: "the event    *)
(* rows and the head come from the same snapshot" (verify_chain).          *)
NoFalseAlarm ==
    \A v \in Verifiers : verifier[v].verdict = "broken" => verifier[v].since # "none"

(* A damaged or lost row and a damaged head are reported by every later    *)
(* verification, however many events were appended since ("genesis,        *)
(* gap-free order, every link and hash, and the head", verify_rows).  With *)
(* the types.                                                              *)
DamageDetected ==
    /\ TypeOK
    /\ \A v \in Verifiers : verifier[v].verdict = "pass" => verifier[v].since = "none"

-----------------------------------------------------------------------------
(* The inductive invariant behind ChainIntact and NoFalseAlarm.             *)

IsSeq(s) == s \in Seq({s[i] : i \in DOMAIN s})

(* The head is locked by the one session that is in a transaction.          *)
LockInv ==
    /\ lock \in Writers \cup {None}
    /\ \A w \in Writers : lock = w <=> writer[w].phase # "idle"

(* In an open transaction the committed and the added rows are a chain that *)
(* ends at the transaction's own head, and a row just inserted extends it.  *)
OpenInv(w) ==
    LET t == writer[w] IN
    /\ IsSeq(t.added)
    /\ t.added = <<>> => t.head = head
    /\ VerifyRows(events \o t.added, t.head)
    /\ t.phase = "inserted" => /\ t.row.sequence = t.head.sequence + 1
                               /\ t.row.previous = t.head.hash
                               /\ t.row.hash = EventHash(t.row)

WriterInv ==
    /\ DOMAIN writer = Writers
    /\ \A w \in Writers :
          /\ DOMAIN writer[w] = {"phase", "head", "row", "added"}
          /\ writer[w].phase = "idle" => writer[w].added = <<>>
          /\ damage = "none" /\ writer[w].phase # "idle" => OpenInv(w)

(* A verification that began on an undamaged chain has read an intact one.  *)
VerifierInv ==
    /\ DOMAIN verifier = Verifiers
    /\ \A v \in Verifiers :
          LET t == verifier[v] IN
          /\ DOMAIN t = {"phase", "rows", "head", "since", "verdict"}
          /\ t.phase = "reading" /\ t.since = "none" => VerifyRows(t.rows, t.head)
          /\ t.verdict = "broken" => t.since # "none"

IInv ==
    /\ LockInv
    /\ damage = "none" => IsSeq(events) /\ VerifyRows(events, head)
    /\ WriterInv
    /\ VerifierInv
=============================================================================
