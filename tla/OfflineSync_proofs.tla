-------------------------- MODULE OfflineSync_proofs --------------------------
(***************************************************************************)
(* Theorems about OfflineSync, for any number of phones, requests and      *)
(* edits: what the phone tells is true, no edit is applied twice, and the  *)
(* edits implement EditLedger.                                             *)
(***************************************************************************)
EXTENDS OfflineSync, Repository_proofs, WellFoundedInduction

-----------------------------------------------------------------------------
(***************************************************************************)
(* Sequences.  The elements of a sequence that was put together or taken   *)
(* apart, and those Without keeps; induction is over a set of numbers,     *)
(* which has a least member.                                               *)
(***************************************************************************)
LEMMA ToSetParts ==
  ASSUME NEW S
  PROVE  /\ ToSet(<<>>) = {}
         /\ \A x : ToSet(<<x>>) = {x}
         /\ \A q \in Seq(S) : \A x : ToSet(Append(q, x)) = ToSet(q) \cup {x}
         /\ \A q \in Seq(S) : ToSet(q) \subseteq S
<1>1. \A q \in Seq(S) : \A x : ToSet(Append(q, x)) = ToSet(q) \cup {x}
  <2>1. ASSUME NEW q \in Seq(S), NEW x
        PROVE  ToSet(Append(q, x)) = ToSet(q) \cup {x}
    <3>1. /\ DOMAIN q = 1..Len(q) /\ Len(q) \in Nat
          /\ DOMAIN Append(q, x) = 1..(Len(q) + 1)
          /\ Append(q, x)[Len(q) + 1] = x
          /\ \A n \in 1..Len(q) : Append(q, x)[n] = q[n]
      OBVIOUS
    <3>2. \A n \in 1..(Len(q) + 1) : n = Len(q) + 1 \/ n \in 1..Len(q)
      BY <3>1
    <3>3. \A n \in 1..Len(q) : n \in 1..(Len(q) + 1)
      BY <3>1
    <3>4. Len(q) + 1 \in 1..(Len(q) + 1)
      BY <3>1
    <3> QED
      BY <3>1, <3>2, <3>3, <3>4 DEF ToSet
  <2> QED
    BY <2>1
<1>2. ToSet(<<>>) = {} /\ \A x : ToSet(<<x>>) = {x}
  BY DEF ToSet
<1>3. \A q \in Seq(S) : ToSet(q) \subseteq S
  BY DEF ToSet
<1> QED
  BY <1>1, <1>2, <1>3

LEMMA HeadTail ==
  ASSUME NEW S, NEW q \in Seq(S), q # <<>>
  PROVE  /\ Head(q) \in S
         /\ Tail(q) \in Seq(S)
         /\ ToSet(q) = {Head(q)} \cup ToSet(Tail(q))
<1>1. /\ Len(q) \in Nat \ {0}
      /\ DOMAIN q = 1..Len(q)
      /\ DOMAIN Tail(q) = 1..(Len(q) - 1)
      /\ Head(q) = q[1]
      /\ \A n \in 1..(Len(q) - 1) : Tail(q)[n] = q[n + 1]
  OBVIOUS
<1>2. \A n \in 1..Len(q) : n = 1 \/ (n - 1 \in 1..(Len(q) - 1) /\ (n - 1) + 1 = n)
  BY <1>1
<1>3. \A n \in 1..(Len(q) - 1) : n + 1 \in 1..Len(q)
  BY <1>1
<1>4. ASSUME NEW x \in ToSet(q) PROVE x = Head(q) \/ x \in ToSet(Tail(q))
  <2>1. PICK n \in 1..Len(q) : x = q[n]
    BY <1>1 DEF ToSet
  <2>2. n = 1 \/ x = Tail(q)[n - 1]
    BY <1>1, <1>2, <2>1
  <2> QED
    BY <1>1, <1>2, <2>1, <2>2 DEF ToSet
<1>5. Head(q) \in ToSet(q) /\ ToSet(Tail(q)) \subseteq ToSet(q)
  BY <1>1, <1>3 DEF ToSet
<1> QED
  BY <1>4, <1>5

\* The equation that defines what Without keeps of the first n items.
KeptStep(q, gone, g, n) ==
  IF n = 0 THEN <<>>
  ELSE IF q[n] \in gone THEN g[n - 1]
  ELSE Append(g[n - 1], q[n])

Keeps(q, gone, g, m) == g = [n \in 0..m |-> KeptStep(q, gone, g, n)]

LEMMA KeepsExist ==
  ASSUME NEW q, NEW gone, NEW m \in Nat
  PROVE  \E g : Keeps(q, gone, g, m)
<1> DEFINE Bad == {n \in Nat : ~ \E g : Keeps(q, gone, g, n)}
<1>1. SUFFICES ASSUME Bad # {} PROVE FALSE
  OBVIOUS
<1>2. PICK n \in Bad : n = 0 \/ n - 1 \in Nat \ Bad
  <2> HIDE DEF Bad
  <2>1. Bad \in SUBSET Nat
    BY DEF Bad
  <2> QED
    BY <1>1, <2>1, LeastNatural
<1>3. CASE n = 0
  <2> DEFINE g == [k \in 0..0 |-> <<>>]
  <2>1. Keeps(q, gone, g, 0)
    BY DEF Keeps, KeptStep
  <2> QED
    BY <1>2, <1>3, <2>1
<1>4. CASE n # 0
  <2>1. n - 1 \in Nat /\ n \in Nat
    BY <1>2, <1>4
  <2>2. PICK g : Keeps(q, gone, g, n - 1)
    BY <1>2, <1>4
  <2> DEFINE h == [k \in 0..n |-> IF k = n THEN KeptStep(q, gone, g, n) ELSE g[k]]
  <2>3. \A k \in 0..n : k # n => h[k] = g[k] /\ k \in 0..(n - 1)
    BY <2>1
  <2>4. \A k \in 0..n : k # 0 => k - 1 \in 0..n /\ k - 1 # n
    BY <2>1
  <2>5. \A k \in 0..n : h[k] = IF k = n THEN KeptStep(q, gone, g, n) ELSE g[k]
    OBVIOUS
  <2>6. h = [k \in 0..n |-> h[k]]
    OBVIOUS
  <2> HIDE DEF h
  <2>7. \A k \in 0..n : KeptStep(q, gone, h, k) = KeptStep(q, gone, g, k)
    BY <2>3, <2>4 DEF KeptStep
  <2>8. \A k \in 0..(n - 1) : g[k] = KeptStep(q, gone, g, k)
    BY <2>2 DEF Keeps
  <2>9. \A k \in 0..n : h[k] = KeptStep(q, gone, h, k)
    BY <2>3, <2>5, <2>7, <2>8
  <2>10. Keeps(q, gone, h, n)
    BY <2>6, <2>9 DEF Keeps
  <2> QED
    BY <1>2, <2>10
<1> QED
  BY <1>3, <1>4

\* Without keeps what is not gone.
LEMMA WithoutKeeps ==
  ASSUME NEW S, NEW q \in Seq(S), NEW gone
  PROVE  /\ Without(q, gone) \in Seq(S)
         /\ ToSet(Without(q, gone)) = ToSet(q) \ gone
<1> DEFINE g == CHOOSE f : Keeps(q, gone, f, Len(q))
<1>1. Without(q, gone) = g[Len(q)]
  BY DEF Without, Keeps, KeptStep
<1>2. Keeps(q, gone, g, Len(q))
  BY KeepsExist
<1> HIDE DEF g
<1> DEFINE Good(n) == /\ g[n] \in Seq(S)
                      /\ ToSet(g[n]) = {q[k] : k \in 1..n} \ gone
<1> DEFINE Bad == {n \in 0..Len(q) : ~Good(n)}
<1>3. \A n \in 0..Len(q) : g[n] = KeptStep(q, gone, g, n)
  BY <1>2 DEF Keeps
<1>4. Bad = {}
  <2> SUFFICES ASSUME Bad # {} PROVE FALSE
    OBVIOUS
  <2>1. PICK n \in Bad : n = 0 \/ n - 1 \in Nat \ Bad
    <3> HIDE DEF Bad
    <3>1. Bad \in SUBSET Nat
      BY DEF Bad
    <3> QED
      BY <3>1, LeastNatural
  <2>2. n \in 0..Len(q) /\ ~Good(n)
    BY <2>1
  <2>3. CASE n = 0
    <3>1. g[0] = <<>>
      BY <1>3, <2>2, <2>3 DEF KeptStep
    <3>2. {q[k] : k \in 1..0} = {}
      OBVIOUS
    <3> QED
      BY <2>2, <2>3, <3>1, <3>2, ToSetParts
  <2>4. CASE n # 0
    <3>1. n - 1 \in 0..Len(q) /\ n \in 1..Len(q)
      BY <2>2, <2>4
    <3>2. Good(n - 1)
      BY <2>1, <2>4, <3>1
    <3>3. g[n] = IF q[n] \in gone THEN g[n - 1] ELSE Append(g[n - 1], q[n])
      BY <1>3, <2>2, <2>4 DEF KeptStep
    <3>4. q[n] \in S
      BY <3>1
    <3>5. {q[k] : k \in 1..n} = {q[k] : k \in 1..(n - 1)} \cup {q[n]}
      <4>1. \A k \in 1..n : k \in 1..(n - 1) \/ k = n
        BY <3>1
      <4>2. 1..(n - 1) \subseteq 1..n /\ n \in 1..n
        BY <3>1
      <4> QED
        BY <4>1, <4>2
    <3>6. CASE q[n] \in gone
      BY <2>2, <3>2, <3>3, <3>5, <3>6
    <3>7. CASE q[n] \notin gone
      <4>1. g[n] \in Seq(S)
        BY <3>2, <3>3, <3>4, <3>7
      <4>2. ToSet(g[n]) = ToSet(g[n - 1]) \cup {q[n]}
        BY <3>2, <3>3, <3>7, ToSetParts
      <4> QED
        BY <2>2, <3>2, <3>5, <3>7, <4>1, <4>2
    <3> QED
      BY <3>6, <3>7
  <2> QED
    BY <2>3, <2>4
<1>5. Len(q) \in 0..Len(q) /\ ToSet(q) = {q[k] : k \in 1..Len(q)}
  BY DEF ToSet
<1> QED
  BY <1>1, <1>4, <1>5
-----------------------------------------------------------------------------
(***************************************************************************)
(* The inductive invariant                                                 *)
(***************************************************************************)

\* No version a client has seen is newer than the table's, nor is a row that was
\* never inserted seen.
VersionInv ==
  \A s \in Spools :
    /\ spool[s].row = "none" => spool[s].version = 0
    /\ \A c \in Clients :
         /\ seen[c][s].version <= spool[s].version
         /\ seen[c][s].row # "none" => spool[s].row # "none"

\* Nothing will ever apply the edit: its spool is gone, has been written since
\* the user read it, or has no room for the weight as it is.
Settled(i) ==
  \/ ~LiveSpool(edit[i].spool)
  \/ spool[edit[i].spool].version > edit[i].version
  \/ edit[i].weight > spool[edit[i].spool].initial

EditOK(i) ==
  /\ edit[i].told = "unused" => applied[i] = 0 /\ syncEvent[i] = "none"
  /\ edit[i].told # "unused" =>
       /\ edit[i].phone \in Phones
       /\ edit[i].spool \in Spools
       /\ spool[edit[i].spool].row # "none"
       /\ edit[i].version <= spool[edit[i].spool].version
  /\ applied[i] # 0 =>
       applied[i] = 1 /\ spool[edit[i].spool].version > edit[i].version
  /\ syncEvent[i] # "none" => Settled(i)
  /\ edit[i].told = "applied" => applied[i] = 1
  /\ edit[i].told = "queued" =>
       \/ i \in ToSet(queue[edit[i].phone])
       \/ syncEvent[i] \in {"applied", "rejected"}
       \/ i \in missed

EditInv == \A i \in Edits : EditOK(i)

\* Phone p still has the edit, or needs it no more.
Kept(i, p) ==
  \/ i \in ToSet(queue[p])
  \/ syncEvent[i] \in {"applied", "rejected"}

\* An edit sent at once: its user waits as long as the phone has told nothing.
AdjustmentOK(r, i) ==
  LET row == request[r] IN
  /\ row.left = <<i>>
  /\ row.state # "handling"
  /\ row.phone = edit[i].phone
  /\ edit[i].told \in {"nothing", "queued"}
  /\ row.waiting => edit[i].told = "nothing"
  /\ row.state = "answered" /\ row.ok => applied[i] = 1

\* A batch: the edits to handle are queued, the outcome of the one in hand and
\* the answer so far are true, and a phone that waits, which has not been restarted
\* since, keeps what it may have to keep.
BatchOK(r) ==
  LET row == request[r] IN
  /\ \A i \in ToSet(row.left) :
       edit[i].told = "queued" /\ (row.waiting => Kept(i, row.phone))
  /\ \A i \in Edits : row.verdict[i] # "none" =>
       syncEvent[i] = row.verdict[i] /\ (row.waiting => Kept(i, row.phone))
  /\ row.state = "sent" => row.current = "none"
  /\ row.state = "handling" /\ row.current # "none" => Settled(Head(row.left))
  /\ row.state = "handling" /\ row.current = "applied" => applied[Head(row.left)] = 1

RequestOK(r) ==
  /\ request[r].state = "free" => request[r] = NoRequest
  /\ request[r].state # "free" => request[r].phone \in Phones
  /\ request[r].state \in {"sent", "handling"} => request[r].left # <<>>
  /\ request[r].kind = "sync" => BatchOK(r)
  /\ request[r].kind = "adjustment" => \E i \in Edits : AdjustmentOK(r, i)

RequestInv ==
  /\ \A r \in Requests : RequestOK(r)
  /\ \A r, q \in Requests :
       /\ request[r].kind = "adjustment"
       /\ request[q].kind = "adjustment"
       /\ request[r].left = request[q].left
       => r = q

\* The columns of OfflineTypeOK.
ColumnsOK ==
  /\ edit \in [Edits -> EditRow]
  /\ queue \in [Phones -> Seq(Edits)]
  /\ conflicts \in [Phones -> SUBSET Edits]
  /\ request \in [Requests -> RequestRow]
  /\ syncEvent \in [Edits -> Verdicts]
  /\ applied \in [Edits -> Nat]

QueuedAreTold ==
  \A p \in Phones : \A i \in ToSet(queue[p]) \cup ToSet(file[p]) : edit[i].told = "queued"

\* The file has all that is queued but what a failed save did not write.  (It may
\* have more, which a failed save did not remove.)
FileInv ==
  /\ file \in [Phones -> Seq(Edits)]
  /\ missed \subseteq Edits
  /\ \A p \in Phones : ToSet(queue[p]) \subseteq ToSet(file[p]) \cup missed

OfflineInv ==
  /\ TypeOK
  /\ ActiveTagsAgree
  /\ VersionInv
  /\ ColumnsOK
  /\ EditInv
  /\ QueuedAreTold
  /\ FileInv
  /\ RequestInv
  /\ ConflictsAreQueued
-----------------------------------------------------------------------------
(***************************************************************************)
(* The spools                                                              *)
(***************************************************************************)

\* What a step may do to a spool: nothing, insert it, or write it once.
Grows(s) ==
  \/ spool'[s] = spool[s]
  \/ /\ spool[s].row = "none"
     /\ spool'[s].version = 1
     /\ spool'[s].row # "none"
  \/ /\ spool[s].row # "none"
     /\ spool'[s].version = spool[s].version + 1
     /\ spool'[s].row # "none"

LEMMA NextGrows ==
  ASSUME TypeOK, VersionInv, [Next]_vars
  PROVE  VersionInv' /\ \A s \in Spools : Grows(s)
<1>0. /\ \A s \in Spools : spool[s].version \in Nat
      /\ \A c \in Clients, s \in Spools : seen[c][s].version \in Nat
  BY DEF TypeOK, SpoolRow
<1>1. CASE UNCHANGED <<spool, seen>>
  BY <1>1 DEF VersionInv, Grows
<1>2. ASSUME NEW c \in Clients, NEW s \in Spools, FetchSpool(c, s)
      PROVE  VersionInv' /\ \A x \in Spools : Grows(x)
  <2>1. /\ UNCHANGED spool
        /\ \A d \in Clients, x \in Spools :
             seen'[d][x] = IF d = c /\ x = s THEN spool[s] ELSE seen[d][x]
    BY <1>2 DEF FetchSpool, TypeOK
  <2> QED
    BY <1>0, <2>1 DEF VersionInv, Grows
<1>3. ASSUME NEW s \in Spools, Created(s), UNCHANGED seen
      PROVE  VersionInv' /\ \A x \in Spools : Grows(x)
  <2>1. \A x \in Spools : Grows(x)
    BY <1>3 DEF Created, Grows
  <2>2. spool[s].version = 0 /\ spool'[s].version = 1 /\ spool'[s].row # "none"
    BY <1>3 DEF VersionInv, Created
  <2> QED
    BY <1>0, <1>3, <2>1, <2>2 DEF VersionInv, Created
<1>4. ASSUME NEW s \in Spools, Rewritten(s), UNCHANGED seen
      PROVE  VersionInv' /\ \A x \in Spools : Grows(x)
  <2>1. \A x \in Spools : Grows(x)
    BY <1>4 DEF Rewritten, Grows
  <2>2. spool'[s].version = spool[s].version + 1 /\ spool'[s].row # "none"
    BY <1>4 DEF Rewritten
  <2> QED
    BY <1>0, <1>4, <2>1, <2>2 DEF VersionInv, Rewritten
<1> QED
  BY <1>1, <1>2, <1>3, <1>4, SpoolSteps

\* An edit that is applied: it was not settled, and now it is.
LEMMA ApplyEffect ==
  ASSUME TypeOK, ActiveTagsAgree, VersionInv, ColumnsOK, EditInv,
         NEW i \in Edits, edit[i].told # "unused", NEW e \in Events, Apply(i, e)
  PROVE  /\ TypeOK' /\ ActiveTagsAgree' /\ VersionInv'
         /\ \A s \in Spools : Grows(s)
         /\ ~Settled(i) /\ applied[i] = 0 /\ syncEvent[i] = "none"
         /\ applied' = [applied EXCEPT ![i] = 1]
         /\ spool'[edit[i].spool].version > edit[i].version
<1> DEFINE s == edit[i].spool
           w == edit[i].weight
           v == edit[i].version
<1>1. s \in Spools /\ w \in Int /\ v \in Nat
  BY DEF EditInv, EditOK, ColumnsOK, EditRow
<1>2. AdjustWeight(s, v, e, w)
  BY DEF Apply
<1>3. TypeOK' /\ Written(s, spool[s].row, w, spool[s].active_tag)
  <2> HIDE DEF s, w, v
  <2> QED
    BY <1>1, <1>2, AdjustType
<1>4. /\ spool[s].row = "live"
      /\ spool[s].version = v
      /\ w <= spool[s].initial
      /\ UNCHANGED <<tag, seen>>
  BY <1>2 DEF AdjustWeight, LiveSpool
<1>5. ActiveTagsAgree'
  <2> HIDE DEF s, w, v
  <2>1. \A x \in Spools : /\ spool'[x].active_tag = spool[x].active_tag
                          /\ spool'[x].row = spool[x].row
    BY <1>1, <1>3 DEF Written
  <2> QED
    BY <1>4, <2>1, AgreeFrame
<1>6. \A x \in Spools : Grows(x)
  <2> HIDE DEF s, w, v
  <2> QED
    BY <1>1, <1>3, <1>4 DEF Written, Grows
<1>7. VersionInv'
  <2> HIDE DEF s, w, v
  <2>0. /\ \A x \in Spools : spool[x].version \in Nat
        /\ \A c \in Clients, x \in Spools : seen[c][x].version \in Nat
    BY DEF TypeOK, SpoolRow
  <2> QED
    BY <2>0, <1>1, <1>3, <1>4 DEF VersionInv, Written
<1>8. spool[s].initial \in Int
  BY <1>1 DEF TypeOK, SpoolRow
<1>9. ~Settled(i)
  <2>1. LiveSpool(edit[i].spool)
    BY <1>4 DEF LiveSpool
  <2>2. ~(spool[edit[i].spool].version > edit[i].version)
    BY <1>1, <1>4
  <2>3. ~(edit[i].weight > spool[edit[i].spool].initial)
    BY <1>1, <1>4, <1>8
  <2> QED
    BY <2>1, <2>2, <2>3 DEF Settled
<1>10. applied[i] = 0 /\ syncEvent[i] = "none"
  BY <1>9 DEF EditInv, EditOK, Settled
<1>11. applied' = [applied EXCEPT ![i] = 1]
  BY <1>10 DEF Apply, ColumnsOK
<1>12. spool'[s].version > v
  BY <1>1, <1>3, <1>4 DEF Written
<1> QED
  BY <1>3, <1>5, <1>6, <1>7, <1>9, <1>10, <1>11, <1>12
-----------------------------------------------------------------------------
(***************************************************************************)
(* What every step keeps                                                   *)
(***************************************************************************)

\* The phone waits for no answer, as after a restart.
Deaf(p) == \A r \in Requests : request[r].phone = p => ~request[r].waiting

Onward ==
  /\ \A s \in Spools : Grows(s)
  /\ \A i \in Edits :
       /\ edit[i].told # "unused" =>
            /\ edit'[i].phone = edit[i].phone
            /\ edit'[i].spool = edit[i].spool
            /\ edit'[i].version = edit[i].version
            /\ edit'[i].weight = edit[i].weight
       /\ edit[i].told = "queued" => edit'[i].told = "queued"
       /\ applied[i] = 1 => applied'[i] = 1
       /\ syncEvent[i] # "none" => syncEvent'[i] = syncEvent[i]
       /\ i \in missed => i \in missed'
       /\ \A p \in Phones : Kept(i, p) => Kept(i, p)' \/ (i \in missed' /\ Deaf(p)')

\* A spool an edit names is not inserted again, and every write raises its version.
LEMMA SettledStays ==
  ASSUME TypeOK, ColumnsOK, EditInv, Onward,
         NEW i \in Edits, edit[i].told # "unused", Settled(i)
  PROVE  Settled(i)'
<1> DEFINE s == edit[i].spool
<1>1. /\ s \in Spools
      /\ spool[s].row # "none"
      /\ edit[i].version <= spool[s].version
      /\ edit[i].version \in Nat
      /\ spool[s].version \in Nat
  BY DEF EditInv, EditOK, ColumnsOK, EditRow, TypeOK, SpoolRow
<1>2. edit'[i].spool = s /\ edit'[i].version = edit[i].version /\ edit'[i].weight = edit[i].weight
  BY DEF Onward
<1>3. Grows(s)
  BY <1>1 DEF Onward
<1>4. CASE spool'[s] = spool[s]
  BY <1>2, <1>4 DEF Settled, LiveSpool
<1>5. CASE spool'[s].version = spool[s].version + 1
  <2>1. spool'[s].version > edit[i].version
    BY <1>1, <1>5
  <2> QED
    BY <1>2, <2>1 DEF Settled
<1> QED
  BY <1>1, <1>3, <1>4, <1>5 DEF Grows

\* An edit the step does not touch.
LEMMA EditStays ==
  ASSUME TypeOK, ColumnsOK, EditInv, Onward, NEW i \in Edits,
         edit'[i] = edit[i], applied'[i] = applied[i], syncEvent'[i] = syncEvent[i]
  PROVE  EditOK(i)'
<1>1. EditOK(i)
  BY DEF EditInv
<1>2. CASE edit[i].told = "unused"
  BY <1>1, <1>2 DEF EditOK
<1>3. CASE edit[i].told # "unused"
  <2> DEFINE s == edit[i].spool
  <2>1. /\ edit[i].phone \in Phones
        /\ s \in Spools
        /\ spool[s].row # "none"
        /\ edit[i].version <= spool[s].version
        /\ edit[i].version \in Nat
        /\ spool[s].version \in Nat
    BY <1>1, <1>3 DEF EditOK, ColumnsOK, EditRow, TypeOK, SpoolRow
  <2>2. /\ spool'[s].row # "none"
        /\ edit[i].version <= spool'[s].version
        /\ spool[s].version > edit[i].version => spool'[s].version > edit[i].version
    BY <2>1 DEF Onward, Grows
  <2>3. Settled(i) => Settled(i)'
    BY <1>3, SettledStays
  <2>4. edit[i].told = "queued" =>
          \/ i \in ToSet(queue'[edit[i].phone])
          \/ syncEvent[i] \in {"applied", "rejected"}
          \/ i \in missed'
    BY <1>1, <2>1 DEF EditOK, Onward, Kept
  <2> QED
    BY <1>1, <1>3, <2>1, <2>2, <2>3, <2>4 DEF EditOK
<1> QED
  BY <1>2, <1>3

\* A request the step ends, or moves on without another edit or outcome.
Carried(r) ==
  LET row == request[r] IN
  /\ request'[r].kind = row.kind
  /\ request'[r].left = row.left
  /\ request'[r].phone = row.phone
  /\ request'[r].current = row.current
  /\ request'[r].verdict = row.verdict
  /\ row.state # "free"
  /\ request'[r].state # "free"
  /\ request'[r].waiting => row.waiting
  /\ request'[r].state = "sent" => row.state = "sent"
  /\ request'[r].state = "handling" =>
       row.state = "handling" \/ (row.state = "sent" /\ row.kind = "sync")
  /\ \A i \in Edits : row.kind = "adjustment" /\ row.left = <<i>> =>
       /\ \/ edit'[i].told = edit[i].told
          \/ edit'[i].told = "queued" /\ ~request'[r].waiting
       /\ request'[r].state = "answered" /\ request'[r].ok =>
            (row.state = "answered" /\ row.ok) \/ applied'[i] = 1

MovesOn(r) == request'[r] = NoRequest \/ Carried(r)

LEMMA FreeRequestOK ==
  ASSUME NEW r \in Requests, request'[r] = NoRequest
  PROVE  RequestOK(r)'
<1>1. ToSet(<<>>) = {}
  BY ToSetParts
<1> QED
  BY <1>1 DEF RequestOK, BatchOK, NoRequest

LEMMA CarriedOK ==
  ASSUME TypeOK, ColumnsOK, EditInv, Onward,
         NEW r \in Requests, RequestOK(r), Carried(r)
  PROVE  RequestOK(r)'
<1> DEFINE row == request[r]
<1>1. row.phone \in Phones /\ row.left \in Seq(Edits) /\ row.kind \in {"adjustment", "sync"}
  BY DEF RequestOK, Carried, ColumnsOK, RequestRow
<1>2. ToSet(row.left) \subseteq Edits
  BY <1>1, ToSetParts
<1>3. CASE row.kind = "sync"
  <2>1. BatchOK(r)
    BY <1>3 DEF RequestOK
  <2>9. /\ request'[r].phone = row.phone
        /\ request'[r].waiting => row.waiting /\ ~Deaf(row.phone)'
    BY DEF Carried, Deaf
  <2>2. \A i \in ToSet(row.left) :
          edit'[i].told = "queued" /\ (request'[r].waiting => Kept(i, row.phone)')
    <3>1. \A i \in ToSet(row.left) :
            edit[i].told = "queued" /\ (row.waiting => Kept(i, row.phone))
      BY <2>1 DEF BatchOK
    <3> QED
      BY <1>1, <1>2, <2>9, <3>1 DEF Onward, Kept
  <2>3. \A i \in Edits : row.verdict[i] # "none" =>
          syncEvent'[i] = row.verdict[i] /\ (request'[r].waiting => Kept(i, row.phone)')
    <3>1. \A i \in Edits : row.verdict[i] # "none" =>
            syncEvent[i] = row.verdict[i] /\ (row.waiting => Kept(i, row.phone))
      BY <2>1 DEF BatchOK
    <3> QED
      BY <1>1, <2>9, <3>1 DEF Onward, Kept
  <2>4. request'[r].state \in {"sent", "handling"} =>
          row.left # <<>> /\ Head(row.left) \in ToSet(row.left)
    BY <1>1, HeadTail DEF RequestOK, Carried
  <2>5. request'[r].state = "handling" /\ row.current # "none" =>
          /\ Settled(Head(row.left))'
          /\ row.current = "applied" => applied'[Head(row.left)] = 1
    <3> SUFFICES ASSUME request'[r].state = "handling", row.current # "none"
                 PROVE  /\ Settled(Head(row.left))'
                        /\ row.current = "applied" => applied'[Head(row.left)] = 1
      OBVIOUS
    <3>1. row.state = "handling"
      BY <2>1 DEF Carried, BatchOK
    <3> PICK i \in Edits : i = Head(row.left)
      BY <1>1, <2>4, HeadTail
    <3>2. edit[i].told = "queued" /\ Settled(i) /\ (row.current = "applied" => applied[i] = 1)
      BY <2>1, <2>4, <3>1 DEF BatchOK
    <3>3. Settled(i)'
      BY <3>2, SettledStays
    <3> QED
      BY <3>2, <3>3 DEF Onward, Carried, Settled
  <2>6. request'[r].state = "sent" => row.current = "none"
    BY <2>1 DEF BatchOK, Carried
  <2>7. /\ request'[r].left = row.left /\ request'[r].phone = row.phone
        /\ request'[r].current = row.current /\ request'[r].verdict = row.verdict
        /\ request'[r].kind = "sync" /\ request'[r].state # "free"
    BY <1>3 DEF Carried
  <2>8. BatchOK(r)'
    BY <2>2, <2>3, <2>5, <2>6, <2>7 DEF BatchOK
  <2> QED
    BY <1>1, <2>4, <2>7, <2>8 DEF RequestOK
<1>4. CASE row.kind = "adjustment"
  <2>1. PICK i \in Edits : AdjustmentOK(r, i)
    BY <1>4 DEF RequestOK
  <2>2. AdjustmentOK(r, i)'
    BY <1>4, <2>1 DEF AdjustmentOK, Carried, Onward
  <2> QED
    BY <1>1, <1>4, <2>2 DEF RequestOK, Carried
<1> QED
  BY <1>1, <1>3, <1>4

\* The requests, when all but the batches a step works on move on.
LEMMA RequestsStep ==
  ASSUME TypeOK, ColumnsOK, EditInv, Onward, RequestInv,
         \A r \in Requests : \/ MovesOn(r)
                             \/ RequestOK(r)' /\ request'[r].kind = "sync"
  PROVE  RequestInv'
<1>1. ASSUME NEW r \in Requests PROVE RequestOK(r)'
  BY FreeRequestOK, CarriedOK DEF RequestInv, MovesOn
<1>2. ASSUME NEW r \in Requests, request'[r].kind = "adjustment"
      PROVE  request[r].kind = "adjustment" /\ request'[r].left = request[r].left
  BY <1>2 DEF MovesOn, Carried, NoRequest
<1> QED
  BY <1>1, <1>2 DEF RequestInv
-----------------------------------------------------------------------------
(***************************************************************************)
(* Rows of requests                                                        *)
(***************************************************************************)
LEMMA NoRequestType == NoRequest \in RequestRow
<1>1. <<>> \in Seq(Edits)
  OBVIOUS
<1> QED
  BY <1>1 DEF NoRequest, RequestRow, Verdicts

\* Every request but r stays as it was, and so does what was told of its edit.
LEMMA OthersMoveOn ==
  ASSUME ColumnsOK, RequestInv, NEW q \in Requests, request'[q] = request[q],
         \A i \in Edits : request[q].kind = "adjustment" /\ request[q].left = <<i>> =>
           edit'[i].told = edit[i].told
  PROVE  MovesOn(q)
<1>1. request[q].state = "free" => request[q] = NoRequest
  BY DEF RequestInv, RequestOK
<1>2. request[q].state = "handling" /\ request[q].kind = "adjustment" => FALSE
  BY DEF RequestInv, RequestOK, AdjustmentOK
<1> QED
  BY <1>1, <1>2 DEF MovesOn, Carried

\* The request is over for the server.
LEMMA OverMovesOn ==
  ASSUME ColumnsOK, RequestInv, NEW r \in Requests,
         request[r].state \in {"sent", "handling"},
         NEW state \in {"answered", "lost"}, NEW ok \in BOOLEAN,
         request'[r] = Over(request[r], state, ok),
         \A i \in Edits : request[r].kind = "adjustment" /\ request[r].left = <<i>> =>
           /\ edit'[i].told = edit[i].told
           /\ state = "answered" /\ ok => applied'[i] = 1
  PROVE  MovesOn(r) /\ request'[r] \in RequestRow
<1>1. request[r] \in RequestRow
  BY DEF ColumnsOK
<1>2. CASE ~request[r].waiting
  BY <1>2, NoRequestType DEF Over, MovesOn
<1>3. CASE request[r].waiting
  <2> DEFINE new == [request[r] EXCEPT !.state = state, !.ok = ok]
  <2>1. request'[r] = new
    BY <1>3 DEF Over
  <2>2. /\ new \in RequestRow
        /\ new.kind = request[r].kind
        /\ new.left = request[r].left
        /\ new.phone = request[r].phone
        /\ new.current = request[r].current
        /\ new.verdict = request[r].verdict
        /\ new.waiting = request[r].waiting
        /\ new.state = state
        /\ new.ok = ok
    BY <1>1 DEF RequestRow
  <2> HIDE DEF new
  <2> QED
    BY <2>1, <2>2 DEF MovesOn, Carried
<1> QED
  BY <1>2, <1>3

\* The phone gives the request up, and may have queued its edit.
LEMMA AbandonedMovesOn ==
  ASSUME ColumnsOK, RequestInv, NEW r \in Requests, request[r].state # "free",
         request'[r] = Abandoned(request[r]),
         \A i \in Edits : request[r].kind = "adjustment" /\ request[r].left = <<i>> =>
           edit'[i].told \in {edit[i].told, "queued"}
  PROVE  MovesOn(r) /\ request'[r] \in RequestRow
<1>1. request[r] \in RequestRow
  BY DEF ColumnsOK
<1>2. CASE request[r].state \in {"answered", "lost"}
  BY <1>2, NoRequestType DEF Abandoned, MovesOn
<1>3. CASE request[r].state \notin {"answered", "lost"}
  <2> DEFINE new == [request[r] EXCEPT !.waiting = FALSE]
  <2>1. request'[r] = new
    BY <1>3 DEF Abandoned
  <2>2. /\ new \in RequestRow
        /\ new.kind = request[r].kind
        /\ new.left = request[r].left
        /\ new.phone = request[r].phone
        /\ new.current = request[r].current
        /\ new.verdict = request[r].verdict
        /\ ~new.waiting
        /\ new.state = request[r].state
        /\ new.ok = request[r].ok
    BY <1>1 DEF RequestRow
  <2>3. request[r].state = "handling" /\ request[r].kind = "adjustment" => FALSE
    BY DEF RequestInv, RequestOK, AdjustmentOK
  <2> HIDE DEF new
  <2> QED
    BY <1>3, <2>1, <2>2, <2>3 DEF MovesOn, Carried
<1> QED
  BY <1>2, <1>3

LEMMA RequestExcept ==
  ASSUME ColumnsOK, NEW r \in Requests, NEW row,
         request' = [request EXCEPT ![r] = row]
  PROVE  /\ request'[r] = row
         /\ \A q \in Requests : q # r => request'[q] = request[q]
         /\ row \in RequestRow => request' \in [Requests -> RequestRow]
BY DEF ColumnsOK
-----------------------------------------------------------------------------
(***************************************************************************)
(* Steps that leave the edits and the phone's queue                        *)
(***************************************************************************)

\* The edits' ledger, on the variables of the mapping.
Told == [i \in Edits |-> edit[i].told]

EditStep == [EditRecords!EditNext]_<<Told, applied, syncEvent>>

\* What the steps of the repository keep.
BaseInv == TypeOK /\ ActiveTagsAgree /\ VersionInv

LEMMA BaseSame ==
  ASSUME BaseInv, UNCHANGED vars
  PROVE  BaseInv' /\ \A s \in Spools : Grows(s)
<1>1. TypeOK'
  BY DEF BaseInv, TypeOK, vars
<1>2. ActiveTagsAgree'
  BY DEF BaseInv, ActiveTagsAgree, LiveSpool, vars
<1>3. VersionInv' /\ \A s \in Spools : Grows(s)
  BY DEF BaseInv, VersionInv, Grows, vars
<1> QED
  BY <1>1, <1>2, <1>3 DEF BaseInv

LEMMA QuietOnward ==
  ASSUME \A s \in Spools : Grows(s), UNCHANGED <<edit, queue, syncEvent, applied, missed>>
  PROVE  Onward
BY DEF Onward, Kept

LEMMA QuietStep ==
  ASSUME OfflineInv, BaseInv', \A s \in Spools : Grows(s),
         UNCHANGED <<edit, queue, file, conflicts, syncEvent, applied, missed>>,
         request' \in [Requests -> RequestRow],
         \A r \in Requests : \/ MovesOn(r)
                             \/ RequestOK(r)' /\ request'[r].kind = "sync"
  PROVE  OfflineInv' /\ EditStep /\ Onward
<1>1. Onward
  BY QuietOnward
<1>2. RequestInv'
  BY <1>1, RequestsStep DEF OfflineInv
<1>3. \A i \in Edits : EditOK(i)'
  BY <1>1, EditStays DEF OfflineInv
<1>4. ColumnsOK' /\ QueuedAreTold' /\ FileInv' /\ ConflictsAreQueued'
  BY DEF OfflineInv, ColumnsOK, QueuedAreTold, FileInv, ConflictsAreQueued
<1>5. EditStep
  BY DEF EditStep, Told
<1> QED
  BY <1>1, <1>2, <1>3, <1>4, <1>5 DEF OfflineInv, BaseInv, EditInv

\* One request ends or moves on.
LEMMA QuietRequest ==
  ASSUME OfflineInv, UNCHANGED <<vars, edit, queue, file, conflicts, syncEvent, applied, missed>>,
         NEW r \in Requests, NEW row \in RequestRow,
         request' = [request EXCEPT ![r] = row],
         MovesOn(r) \/ (RequestOK(r)' /\ request'[r].kind = "sync")
  PROVE  OfflineInv' /\ EditStep /\ Onward
<1>1. BaseInv' /\ \A s \in Spools : Grows(s)
  BY BaseSame DEF OfflineInv, BaseInv
<1>2. /\ request' \in [Requests -> RequestRow]
      /\ \A q \in Requests : q # r => request'[q] = request[q]
  BY RequestExcept DEF OfflineInv
<1>3. ASSUME NEW q \in Requests, q # r PROVE MovesOn(q)
  BY <1>2, <1>3, OthersMoveOn DEF OfflineInv
<1> QED
  BY <1>1, <1>2, <1>3, QuietStep

\* An answer to a request whose edit, if it was sent alone, is not claimed to be
\* applied, and a request that is lost.
LEMMA OverStep ==
  ASSUME OfflineInv, UNCHANGED <<vars, edit, queue, file, conflicts, syncEvent, applied, missed>>,
         NEW r \in Requests, request[r].state \in {"sent", "handling"},
         NEW state \in {"answered", "lost"},
         request' = [request EXCEPT ![r] = Over(@, state, FALSE)]
  PROVE  OfflineInv' /\ EditStep /\ Onward
<1>1. request'[r] = Over(request[r], state, FALSE)
  BY DEF OfflineInv, ColumnsOK
<1>2. MovesOn(r) /\ request'[r] \in RequestRow
  BY <1>1, OverMovesOn DEF OfflineInv
<1>3. request' = [request EXCEPT ![r] = request'[r]]
  BY <1>1
<1> QED
  BY <1>2, <1>3, QuietRequest

LEMMA RefuseStep ==
  ASSUME OfflineInv, NEW r \in Requests,
         RefuseAdjustment(r) \/ RefuseBatch(r) \/ FailItem(r) \/ Lose(r)
  PROVE  OfflineInv' /\ EditStep /\ Onward
<1>1. UNCHANGED <<vars, edit, queue, file, conflicts, syncEvent, applied, missed>>
  BY DEF RefuseAdjustment, RefuseBatch, FailItem, Lose
<1>2. request[r].state \in {"sent", "handling"}
  BY DEF RefuseAdjustment, RefuseBatch, FailItem, Lose, Sent
<1>3. \E state \in {"answered", "lost"} :
        request' = [request EXCEPT ![r] = Over(@, state, FALSE)]
  BY DEF RefuseAdjustment, RefuseBatch, FailItem, Lose, Answer
<1> QED
  BY <1>1, <1>2, <1>3, OverStep

LEMMA GiveUpStep ==
  ASSUME OfflineInv, NEW r \in Requests, GiveUpSync(r)
  PROVE  OfflineInv' /\ EditStep /\ Onward
<1>1. request'[r] = Abandoned(request[r]) /\ request[r].state # "free"
  BY DEF GiveUpSync, Waiting, OfflineInv, ColumnsOK, RequestInv, RequestOK, NoRequest
<1>2. UNCHANGED <<vars, edit, queue, file, conflicts, syncEvent, applied, missed>>
  BY DEF GiveUpSync
<1>3. MovesOn(r) /\ request'[r] \in RequestRow
  BY <1>1, <1>2, AbandonedMovesOn DEF OfflineInv
<1>4. request' = [request EXCEPT ![r] = request'[r]]
  BY <1>1 DEF GiveUpSync
<1> QED
  BY <1>2, <1>3, <1>4, QuietRequest

LEMMA BeginStep ==
  ASSUME OfflineInv, NEW r \in Requests, BeginBatch(r)
  PROVE  OfflineInv' /\ EditStep /\ Onward
<1> DEFINE new == [request[r] EXCEPT !.state = "handling"]
<1>1. /\ request' = [request EXCEPT ![r] = new]
      /\ UNCHANGED <<vars, edit, queue, file, conflicts, syncEvent, applied, missed>>
      /\ request[r].state = "sent" /\ request[r].kind = "sync"
  BY DEF BeginBatch, Sent
<1>2. request[r] \in RequestRow
  BY DEF OfflineInv, ColumnsOK
<1>3. /\ new \in RequestRow
      /\ new.kind = request[r].kind
      /\ new.left = request[r].left
      /\ new.phone = request[r].phone
      /\ new.current = request[r].current
      /\ new.verdict = request[r].verdict
      /\ new.waiting = request[r].waiting
      /\ new.state = "handling"
  BY <1>2 DEF RequestRow
<1> HIDE DEF new
<1>4. request'[r] = new
  BY <1>1, RequestExcept DEF OfflineInv
<1>5. MovesOn(r)
  BY <1>1, <1>3, <1>4 DEF MovesOn, Carried
<1> QED
  BY <1>1, <1>3, <1>5, QuietRequest

\* What a request under way has to handle.
LEMMA BatchInHand ==
  ASSUME OfflineInv, NEW r \in Requests, request[r].state = "handling"
  PROVE  /\ request[r] \in RequestRow
         /\ request[r].phone \in Phones
         /\ request[r].kind = "sync"
         /\ BatchOK(r)
         /\ request[r].left \in Seq(Edits)
         /\ request[r].left # <<>>
         /\ Head(request[r].left) \in Edits
         /\ Tail(request[r].left) \in Seq(Edits)
         /\ ToSet(request[r].left) =
              {Head(request[r].left)} \cup ToSet(Tail(request[r].left))
         /\ edit[Head(request[r].left)].told = "queued"
<1>1. request[r] \in RequestRow /\ RequestOK(r)
  BY DEF OfflineInv, ColumnsOK, RequestInv
<1>2. /\ request[r].phone \in Phones
      /\ request[r].kind = "sync"
      /\ request[r].left \in Seq(Edits)
      /\ request[r].left # <<>>
      /\ BatchOK(r)
  BY <1>1 DEF RequestOK, RequestRow, AdjustmentOK
<1>3. /\ Head(request[r].left) \in Edits
      /\ Tail(request[r].left) \in Seq(Edits)
      /\ ToSet(request[r].left) =
           {Head(request[r].left)} \cup ToSet(Tail(request[r].left))
  BY <1>2, HeadTail
<1>4. edit[Head(request[r].left)].told = "queued"
  BY <1>2, <1>3 DEF BatchOK
<1> QED
  BY <1>1, <1>2, <1>3, <1>4

LEMMA RefusalSettles ==
  ASSUME OfflineInv, NEW i \in Edits, edit[i].told # "unused", Refusal(i) # "none"
  PROVE  Settled(i) /\ Refusal(i) \in Verdicts /\ Refusal(i) # "applied"
<1>1. /\ edit[i].spool \in Spools
      /\ edit[i].version \in Nat
      /\ edit[i].version <= spool[edit[i].spool].version
      /\ spool[edit[i].spool].version \in Nat
  BY DEF OfflineInv, EditInv, EditOK, ColumnsOK, EditRow, TypeOK, SpoolRow
<1>2. spool[edit[i].spool].version # edit[i].version =>
        spool[edit[i].spool].version > edit[i].version
  BY <1>1
<1> QED
  BY <1>2 DEF Refusal, Settled, Verdicts

LEMMA RefuseItemStep ==
  ASSUME OfflineInv, NEW r \in Requests, RefuseItem(r)
  PROVE  OfflineInv' /\ EditStep /\ Onward
<1> DEFINE why == Refusal(Head(request[r].left))
           new == [request[r] EXCEPT !.current = why]
<1>1. /\ request' = [request EXCEPT ![r] = new]
      /\ UNCHANGED <<vars, edit, queue, file, conflicts, syncEvent, applied, missed>>
      /\ request[r].state = "handling" /\ why # "none"
  BY DEF RefuseItem
<1> PICK i \in Edits : i = Head(request[r].left)
  BY <1>1, BatchInHand
<1>2. Settled(i) /\ why \in Verdicts /\ why # "applied"
  BY <1>1, BatchInHand, RefusalSettles
<1>3. /\ new \in RequestRow
      /\ new.kind = "sync"
      /\ new.left = request[r].left
      /\ new.phone = request[r].phone /\ new.waiting = request[r].waiting
      /\ new.current = why
      /\ new.verdict = request[r].verdict
      /\ new.state = "handling"
  BY <1>1, <1>2, BatchInHand DEF RequestRow
<1> HIDE DEF new, why
<1>4. request'[r] = new
  BY <1>1, RequestExcept DEF OfflineInv
<1>5. BatchOK(r)'
  <2>1. BatchOK(r)
    BY <1>1, BatchInHand
  <2>2. Settled(i)' /\ Head(request'[r].left) = i
    BY <1>1, <1>2, <1>3, <1>4 DEF Settled, LiveSpool, vars
  <2>3. \A j \in ToSet(request'[r].left) :
          edit'[j].told = "queued" /\ (request'[r].waiting => Kept(j, request[r].phone)')
    BY <1>1, <1>3, <1>4, <2>1 DEF BatchOK, Kept
  <2>4. \A j \in Edits : request'[r].verdict[j] # "none" =>
          /\ syncEvent'[j] = request'[r].verdict[j]
          /\ request'[r].waiting => Kept(j, request[r].phone)'
    BY <1>1, <1>3, <1>4, <2>1 DEF BatchOK, Kept
  <2> QED
    BY <1>2, <1>3, <1>4, <2>2, <2>3, <2>4 DEF BatchOK, Kept, Settled
<1>6. RequestOK(r)'
  BY <1>1, <1>3, <1>4, <1>5, BatchInHand DEF RequestOK
<1> QED
  BY <1>1, <1>3, <1>4, <1>6, QuietRequest

LEMMA SubmitQueueStep ==
  ASSUME OfflineInv, NEW p \in Phones, NEW r \in Requests, SubmitQueue(p, r)
  PROVE  OfflineInv' /\ EditStep /\ Onward
<1> DEFINE new == [NoRequest EXCEPT !.state = "sent", !.kind = "sync", !.phone = p,
                                    !.waiting = TRUE, !.left = queue[p]]
<1>1. /\ request' = [request EXCEPT ![r] = new]
      /\ UNCHANGED <<vars, edit, queue, file, conflicts, syncEvent, applied, missed>>
      /\ queue[p] # <<>>
  BY DEF SubmitQueue, Send
<1>2. queue[p] \in Seq(Edits)
  BY DEF OfflineInv, ColumnsOK
<1>3. /\ new \in RequestRow
      /\ new.kind = "sync"
      /\ new.left = queue[p]
      /\ new.phone = p
      /\ new.current = "none"
      /\ \A i \in Edits : new.verdict[i] = "none"
      /\ new.state = "sent"
  BY <1>2, NoRequestType DEF RequestRow, NoRequest
<1> HIDE DEF new
<1>4. request'[r] = new
  BY <1>1, RequestExcept DEF OfflineInv
<1>5. \A i \in ToSet(queue[p]) : edit[i].told = "queued"
  BY DEF OfflineInv, QueuedAreTold
<1>6. RequestOK(r)'
  BY <1>1, <1>3, <1>4, <1>5 DEF RequestOK, BatchOK, Kept
<1> QED
  BY <1>1, <1>3, <1>4, <1>6, QuietRequest
-----------------------------------------------------------------------------
(***************************************************************************)
(* Steps that change an edit, the queue or what is recorded                *)
(***************************************************************************)
LEMMA Assemble ==
  ASSUME OfflineInv, BaseInv', Onward, ColumnsOK', QueuedAreTold', FileInv', ConflictsAreQueued',
         \A r \in Requests : \/ MovesOn(r)
                             \/ RequestOK(r)' /\ request'[r].kind = "sync",
         \A i \in Edits : \/ EditOK(i)'
                          \/ /\ edit'[i] = edit[i]
                             /\ applied'[i] = applied[i]
                             /\ syncEvent'[i] = syncEvent[i]
  PROVE  OfflineInv'
<1>1. RequestInv'
  BY RequestsStep DEF OfflineInv
<1>2. \A i \in Edits : EditOK(i)'
  BY EditStays DEF OfflineInv
<1> QED
  BY <1>1, <1>2 DEF OfflineInv, BaseInv, EditInv

\* A save, whether or not the file could be written.
LEMMA SaveEffect ==
  ASSUME FileInv, NEW p \in Phones, Save(p), queue' \in [Phones -> Seq(Edits)],
         \A o \in Phones : o # p => ToSet(queue'[o]) = ToSet(queue[o])
  PROVE  /\ FileInv'
         /\ missed \subseteq missed'
         /\ \A o \in Phones : ToSet(file'[o]) \subseteq ToSet(file[o]) \cup ToSet(queue'[o])
<1>1. \A o \in Phones : queue'[o] \in Seq(Edits) /\ ToSet(queue'[o]) \subseteq Edits
  BY ToSetParts
<1>2. CASE file' = [file EXCEPT ![p] = queue'[p]] /\ UNCHANGED missed
  <2>1. \A o \in Phones : file'[o] = IF o = p THEN queue'[o] ELSE file[o]
    BY <1>2 DEF FileInv
  <2>2. file' \in [Phones -> Seq(Edits)]
    BY <1>1, <1>2 DEF FileInv
  <2> QED
    BY <1>2, <2>1, <2>2 DEF FileInv
<1>3. CASE missed' = missed \cup (ToSet(queue'[p]) \ ToSet(file[p])) /\ UNCHANGED file
  BY <1>1, <1>3 DEF FileInv
<1> QED
  BY <1>2, <1>3 DEF Save

\* The server applies an edit.
LEMMA ApplyStep ==
  ASSUME OfflineInv, NEW i \in Edits, edit[i].told \in {"nothing", "queued"},
         NEW e \in Events, Apply(i, e), UNCHANGED <<edit, queue, file, conflicts, syncEvent, missed>>
  PROVE  /\ BaseInv' /\ Onward /\ EditStep
         /\ QueuedAreTold' /\ FileInv' /\ ConflictsAreQueued'
         /\ \A j \in Edits : EditOK(j)'
         /\ applied' \in [Edits -> Nat]
         /\ applied'[i] = 1
         /\ Settled(i)'
<1>1. /\ BaseInv'
      /\ \A s \in Spools : Grows(s)
      /\ applied[i] = 0 /\ syncEvent[i] = "none"
      /\ applied' = [applied EXCEPT ![i] = 1]
      /\ spool'[edit[i].spool].version > edit[i].version
  BY ApplyEffect DEF OfflineInv, BaseInv
<1>2. /\ applied' \in [Edits -> Nat]
      /\ applied'[i] = 1
      /\ \A j \in Edits : j # i => applied'[j] = applied[j]
  BY <1>1 DEF OfflineInv, ColumnsOK
<1>3. Onward
  BY <1>1, <1>2 DEF Onward, Kept
<1>4. QueuedAreTold' /\ FileInv' /\ ConflictsAreQueued'
  BY DEF OfflineInv, QueuedAreTold, FileInv, ConflictsAreQueued
<1>5. Settled(i)'
  BY <1>1 DEF Settled
<1>6. ASSUME NEW j \in Edits PROVE EditOK(j)'
  <2>1. CASE j # i
    BY <1>2, <1>3, <2>1, EditStays DEF OfflineInv
  <2>2. EditOK(i)'
    <3>1. EditOK(i)
      BY DEF OfflineInv, EditInv
    <3>2. Grows(edit[i].spool)
      BY <1>1, <3>1 DEF EditOK
    <3>3. /\ edit[i].version \in Nat
          /\ edit[i].spool \in Spools
          /\ spool'[edit[i].spool].version \in Nat
      BY <1>1, <3>1 DEF EditOK, OfflineInv, ColumnsOK, EditRow, BaseInv, TypeOK, SpoolRow
    <3>4. edit[i].version <= spool'[edit[i].spool].version
      BY <1>1, <3>3
    <3>5. spool'[edit[i].spool].row # "none"
      BY <3>1, <3>2 DEF EditOK, Grows
    <3> QED
      BY <1>1, <1>2, <3>1, <3>4, <3>5 DEF EditOK
  <2> QED
    BY <2>1, <2>2
<1>7. EditStep
  <2>1. EditRecords!ApplyOnce(i)
    BY <1>1 DEF EditRecords!ApplyOnce
  <2> QED
    BY <2>1 DEF EditStep, EditRecords!EditNext
<1> QED
  BY <1>1, <1>2, <1>3, <1>4, <1>5, <1>6, <1>7

LEMMA AcceptStep ==
  ASSUME OfflineInv, NEW r \in Requests, NEW e \in Events, AcceptAdjustment(r, e)
  PROVE  OfflineInv' /\ EditStep /\ Onward
<1>1. request[r].state = "sent" /\ request[r].kind = "adjustment"
  BY DEF AcceptAdjustment, Sent
<1> PICK i \in Edits : AdjustmentOK(r, i)
  BY <1>1 DEF OfflineInv, RequestInv, RequestOK
<1>2. request[r].left = <<i>> /\ Head(request[r].left) = i /\ edit[i].told \in {"nothing", "queued"}
  BY DEF AdjustmentOK
<1>3. /\ Apply(i, e)
      /\ UNCHANGED <<edit, queue, file, conflicts, syncEvent, missed>>
      /\ request' = [request EXCEPT ![r] = Over(@, "answered", TRUE)]
  BY <1>2 DEF AcceptAdjustment, Answer
<1>4. /\ BaseInv' /\ Onward /\ QueuedAreTold' /\ FileInv' /\ ConflictsAreQueued' /\ EditStep
      /\ \A j \in Edits : EditOK(j)'
      /\ applied' \in [Edits -> Nat]
      /\ applied'[i] = 1
  BY <1>2, <1>3, ApplyStep
<1>5. request'[r] = Over(request[r], "answered", TRUE)
  BY <1>3 DEF OfflineInv, ColumnsOK
<1>6. \A j \in Edits : request[r].left = <<j>> => j = i
  BY <1>2
<1>7. MovesOn(r) /\ request'[r] \in RequestRow
  BY <1>1, <1>3, <1>4, <1>5, <1>6, OverMovesOn DEF OfflineInv
<1>8. request' \in [Requests -> RequestRow] /\ \A q \in Requests : q # r => request'[q] = request[q]
  BY <1>3, <1>5, <1>7 DEF OfflineInv, ColumnsOK
<1>9. ASSUME NEW q \in Requests PROVE MovesOn(q)
  BY <1>3, <1>7, <1>8, OthersMoveOn DEF OfflineInv
<1>10. ColumnsOK'
  BY <1>3, <1>4, <1>8 DEF OfflineInv, ColumnsOK
<1> QED
  BY <1>4, <1>9, <1>10, Assemble

LEMMA AdjustItemStep ==
  ASSUME OfflineInv, NEW r \in Requests, NEW e \in Events, AdjustItem(r, e)
  PROVE  OfflineInv' /\ EditStep /\ Onward
<1> DEFINE new == [request[r] EXCEPT !.current = "applied"]
<1>1. /\ request' = [request EXCEPT ![r] = new]
      /\ UNCHANGED <<edit, queue, file, conflicts, syncEvent, missed>>
      /\ request[r].state = "handling"
      /\ Apply(Head(request[r].left), e)
  BY DEF AdjustItem
<1> PICK i \in Edits : i = Head(request[r].left)
  BY <1>1, BatchInHand
<1>2. edit[i].told = "queued" /\ Apply(i, e)
  BY <1>1, BatchInHand
<1>3. /\ BaseInv' /\ Onward /\ QueuedAreTold' /\ FileInv' /\ ConflictsAreQueued' /\ EditStep
      /\ \A j \in Edits : EditOK(j)'
      /\ applied' \in [Edits -> Nat]
      /\ applied'[i] = 1
      /\ Settled(i)'
  BY <1>1, <1>2, ApplyStep
<1>4. /\ new \in RequestRow
      /\ new.kind = "sync"
      /\ new.left = request[r].left
      /\ new.phone = request[r].phone /\ new.waiting = request[r].waiting
      /\ new.current = "applied"
      /\ new.verdict = request[r].verdict
      /\ new.state = "handling"
  BY <1>1, BatchInHand DEF RequestRow, Verdicts
<1> HIDE DEF new
<1>5. /\ request'[r] = new
      /\ \A q \in Requests : q # r => request'[q] = request[q]
      /\ request' \in [Requests -> RequestRow]
  BY <1>1, <1>4, RequestExcept DEF OfflineInv
<1>6. BatchOK(r)'
  <2>1. BatchOK(r)
    BY <1>1, BatchInHand
  <2>2. Head(request'[r].left) = i
    BY <1>4, <1>5
  <2>3. \A j \in ToSet(request'[r].left) :
          edit'[j].told = "queued" /\ (request'[r].waiting => Kept(j, request[r].phone)')
    BY <1>1, <1>4, <1>5, <2>1 DEF BatchOK, Kept
  <2>4. \A j \in Edits : request'[r].verdict[j] # "none" =>
          /\ syncEvent'[j] = request'[r].verdict[j]
          /\ request'[r].waiting => Kept(j, request[r].phone)'
    BY <1>1, <1>4, <1>5, <2>1 DEF BatchOK, Kept
  <2> QED
    BY <1>3, <1>4, <1>5, <2>2, <2>3, <2>4 DEF BatchOK, Kept, Settled
<1>7. RequestOK(r)' /\ request'[r].kind = "sync"
  BY <1>1, <1>4, <1>5, <1>6, BatchInHand DEF RequestOK
<1>8. ASSUME NEW q \in Requests, q # r PROVE MovesOn(q)
  BY <1>1, <1>5, <1>8, OthersMoveOn DEF OfflineInv
<1>9. ColumnsOK'
  BY <1>1, <1>3, <1>5 DEF OfflineInv, ColumnsOK
<1>10. \A q \in Requests : \/ MovesOn(q)
                           \/ RequestOK(q)' /\ request'[q].kind = "sync"
  BY <1>7, <1>8
<1> QED
  BY <1>3, <1>9, <1>10, Assemble

\* The phone reads that its adjustment was made.
LEMMA ConfirmStep ==
  ASSUME OfflineInv, NEW r \in Requests, ConfirmAdjustment(r)
  PROVE  OfflineInv' /\ EditStep /\ Onward
<1>1. /\ request[r].waiting /\ request[r].kind = "adjustment"
      /\ request[r].state = "answered" /\ request[r].ok
      /\ request' = [request EXCEPT ![r] = NoRequest]
      /\ UNCHANGED <<vars, queue, file, conflicts, syncEvent, applied, missed>>
  BY DEF ConfirmAdjustment, Succeeded, Waiting, Read
<1> PICK i \in Edits : AdjustmentOK(r, i)
  BY <1>1 DEF OfflineInv, RequestInv, RequestOK
<1>2. /\ request[r].left = <<i>> /\ Head(request[r].left) = i
      /\ edit[i].told = "nothing" /\ applied[i] = 1
  BY <1>1 DEF AdjustmentOK
<1> DEFINE new == [edit[i] EXCEPT !.told = "applied"]
<1>3. edit' = [edit EXCEPT ![i] = new]
  BY <1>2 DEF ConfirmAdjustment
<1>4. /\ new \in EditRow
      /\ new.told = "applied"
      /\ new.phone = edit[i].phone /\ new.spool = edit[i].spool
      /\ new.version = edit[i].version /\ new.weight = edit[i].weight
  BY DEF OfflineInv, ColumnsOK, EditRow
<1> HIDE DEF new
<1>5. /\ edit' \in [Edits -> EditRow]
      /\ edit'[i] = new
      /\ \A j \in Edits : j # i => edit'[j] = edit[j]
  BY <1>3, <1>4 DEF OfflineInv, ColumnsOK
<1>6. BaseInv' /\ \A s \in Spools : Grows(s)
  BY <1>1, BaseSame DEF OfflineInv, BaseInv
<1>7. Onward
  <2>1. \A j \in Edits : /\ edit'[j].phone = edit[j].phone
                         /\ edit'[j].spool = edit[j].spool
                         /\ edit'[j].version = edit[j].version
                         /\ edit'[j].weight = edit[j].weight
                         /\ edit[j].told = "queued" => edit'[j].told = "queued"
    BY <1>2, <1>4, <1>5
  <2> QED
    BY <1>1, <1>6, <2>1 DEF Onward, Kept
<1>8. /\ request' \in [Requests -> RequestRow]
      /\ request'[r] = NoRequest
      /\ \A q \in Requests : q # r => request'[q] = request[q]
  BY <1>1, NoRequestType, RequestExcept DEF OfflineInv
<1>9. ColumnsOK'
  BY <1>1, <1>5, <1>8 DEF OfflineInv, ColumnsOK
<1>10. ASSUME NEW q \in Requests PROVE MovesOn(q)
  <2>1. CASE q = r
    BY <1>8, <2>1 DEF MovesOn
  <2>2. CASE q # r
    <3>1. ASSUME NEW j \in Edits, request[q].kind = "adjustment", request[q].left = <<j>>
          PROVE  edit'[j].told = edit[j].told
      <4>1. j # i
        BY <1>1, <1>2, <2>2, <3>1 DEF OfflineInv, RequestInv
      <4> QED
        BY <1>5, <4>1
    <3> QED
      BY <1>8, <2>2, <3>1, OthersMoveOn DEF OfflineInv
  <2> QED
    BY <2>1, <2>2
<1>11. QueuedAreTold' /\ FileInv' /\ ConflictsAreQueued'
  <2>1. ASSUME NEW p \in Phones, NEW j \in ToSet(queue[p]) \cup ToSet(file[p])
        PROVE  edit'[j].told = "queued"
    <3>1. edit[j].told = "queued" /\ j \in Edits
      BY ToSetParts DEF OfflineInv, QueuedAreTold, ColumnsOK, FileInv
    <3> QED
      BY <1>2, <1>5, <3>1
  <2> QED
    BY <1>1, <2>1 DEF OfflineInv, QueuedAreTold, FileInv, ConflictsAreQueued
<1>12. EditOK(i)'
  <2>1. EditOK(i)
    BY DEF OfflineInv, EditInv
  <2>2. Settled(i) => Settled(i)'
    BY <1>7, <1>2, SettledStays DEF OfflineInv
  <2> QED
    BY <1>1, <1>2, <1>4, <1>5, <2>1, <2>2 DEF EditOK, vars
<1>13. EditStep
  <2>1. Told[i] = "nothing" /\ Told' = [Told EXCEPT ![i] = "applied"]
    BY <1>2, <1>4, <1>5 DEF Told
  <2>2. EditRecords!Confirm(i)
    BY <1>1, <1>2, <2>1 DEF EditRecords!Confirm, Told
  <2> QED
    BY <2>2 DEF EditStep, EditRecords!EditNext
<1>14. \A j \in Edits : \/ EditOK(j)'
                        \/ /\ edit'[j] = edit[j]
                           /\ applied'[j] = applied[j]
                           /\ syncEvent'[j] = syncEvent[j]
  BY <1>1, <1>5, <1>12
<1> QED
  BY <1>6, <1>7, <1>9, <1>10, <1>11, <1>13, <1>14, Assemble

\* The phone queues the edit it has no good answer to.
LEMMA QueueStep ==
  ASSUME OfflineInv, NEW r \in Requests, QueueAdjustment(r)
  PROVE  OfflineInv' /\ EditStep /\ Onward
<1> DEFINE p == request[r].phone
<1>1. /\ request[r].waiting /\ request[r].kind = "adjustment"
      /\ request' = [request EXCEPT ![r] = Abandoned(@)]
      /\ UNCHANGED <<vars, conflicts, syncEvent, applied>>
      /\ Save(p)
  BY DEF QueueAdjustment, Waiting
<1> PICK i \in Edits : AdjustmentOK(r, i)
  BY <1>1 DEF OfflineInv, RequestInv, RequestOK
<1>2. /\ request[r].left = <<i>> /\ Head(request[r].left) = i
      /\ edit[i].told = "nothing" /\ p = edit[i].phone
      /\ request[r].state # "free" /\ p \in Phones
  BY <1>1 DEF AdjustmentOK, OfflineInv, RequestInv, RequestOK, NoRequest
<1> DEFINE new == [edit[i] EXCEPT !.told = "queued"]
<1>3. /\ edit' = [edit EXCEPT ![i] = new]
      /\ queue' = [queue EXCEPT ![p] = Append(@, i)]
  BY <1>2 DEF QueueAdjustment
<1>4. /\ new \in EditRow
      /\ new.told = "queued"
      /\ new.phone = edit[i].phone /\ new.spool = edit[i].spool
      /\ new.version = edit[i].version /\ new.weight = edit[i].weight
  BY DEF OfflineInv, ColumnsOK, EditRow
<1> HIDE DEF new, p
<1>5. /\ edit' \in [Edits -> EditRow]
      /\ edit'[i] = new
      /\ \A j \in Edits : j # i => edit'[j] = edit[j]
  BY <1>3, <1>4 DEF OfflineInv, ColumnsOK
<1>6. /\ queue' \in [Phones -> Seq(Edits)]
      /\ \A o \in Phones : ToSet(queue'[o]) = IF o = p THEN ToSet(queue[p]) \cup {i}
                                                       ELSE ToSet(queue[o])
  <2>1. queue[p] \in Seq(Edits) /\ Append(queue[p], i) \in Seq(Edits)
    BY <1>2 DEF OfflineInv, ColumnsOK
  <2>2. ToSet(Append(queue[p], i)) = ToSet(queue[p]) \cup {i}
    BY <2>1, ToSetParts
  <2> QED
    BY <1>2, <1>3, <2>1, <2>2 DEF OfflineInv, ColumnsOK
<1>19. /\ FileInv'
       /\ missed \subseteq missed'
       /\ \A o \in Phones : ToSet(file'[o]) \subseteq ToSet(file[o]) \cup ToSet(queue'[o])
  BY <1>1, <1>2, <1>6, SaveEffect DEF OfflineInv
<1>7. BaseInv' /\ \A s \in Spools : Grows(s)
  BY <1>1, BaseSame DEF OfflineInv, BaseInv
<1>8. Onward
  <2>1. \A j \in Edits : /\ edit'[j].phone = edit[j].phone
                         /\ edit'[j].spool = edit[j].spool
                         /\ edit'[j].version = edit[j].version
                         /\ edit'[j].weight = edit[j].weight
                         /\ edit[j].told = "queued" => edit'[j].told = "queued"
    BY <1>4, <1>5
  <2>2. \A j \in Edits, o \in Phones : Kept(j, o) => Kept(j, o)'
    BY <1>1, <1>6 DEF Kept
  <2> QED
    BY <1>1, <1>7, <1>19, <2>1, <2>2 DEF Onward
<1>9. request'[r] = Abandoned(request[r])
  BY <1>1 DEF OfflineInv, ColumnsOK
<1>10. \A j \in Edits : request[r].left = <<j>> => j = i
  BY <1>2
<1>11. MovesOn(r) /\ request'[r] \in RequestRow
  <2>1. \A j \in Edits : request[r].kind = "adjustment" /\ request[r].left = <<j>> =>
          edit'[j].told \in {edit[j].told, "queued"}
    BY <1>4, <1>5, <1>10
  <2> QED
    BY <1>2, <1>9, <2>1, AbandonedMovesOn DEF OfflineInv
<1>12. /\ request' \in [Requests -> RequestRow]
       /\ \A q \in Requests : q # r => request'[q] = request[q]
  BY <1>1, <1>9, <1>11 DEF OfflineInv, ColumnsOK
<1>13. ASSUME NEW q \in Requests PROVE MovesOn(q)
  <2>1. CASE q # r
    <3>1. ASSUME NEW j \in Edits, request[q].kind = "adjustment", request[q].left = <<j>>
          PROVE  edit'[j].told = edit[j].told
      <4>1. j # i
        BY <1>1, <1>2, <2>1, <3>1 DEF OfflineInv, RequestInv
      <4> QED
        BY <1>5, <4>1
    <3> QED
      BY <1>12, <2>1, <3>1, OthersMoveOn DEF OfflineInv
  <2> QED
    BY <1>11, <2>1
<1>14. ColumnsOK'
  BY <1>1, <1>5, <1>6, <1>12 DEF OfflineInv, ColumnsOK
<1>15. QueuedAreTold' /\ ConflictsAreQueued'
  <2>1. ASSUME NEW o \in Phones, NEW j \in ToSet(queue'[o]) \cup ToSet(file'[o])
        PROVE  edit'[j].told = "queued"
    <3>1. j = i \/ (j \in ToSet(queue[o]) \cup ToSet(file[o]) /\ j \in Edits)
      BY <1>6, <1>19, <2>1, ToSetParts DEF OfflineInv, ColumnsOK, FileInv
    <3> QED
      BY <1>4, <1>5, <3>1 DEF OfflineInv, QueuedAreTold
  <2>2. \A o \in Phones : conflicts'[o] \subseteq ToSet(queue'[o])
    BY <1>1, <1>6 DEF OfflineInv, ConflictsAreQueued
  <2> QED
    BY <2>1, <2>2 DEF QueuedAreTold, ConflictsAreQueued
<1>16. EditOK(i)'
  <2>1. EditOK(i)
    BY DEF OfflineInv, EditInv
  <2>2. Settled(i) => Settled(i)'
    BY <1>8, <1>2, SettledStays DEF OfflineInv
  <2>3. i \in ToSet(queue'[edit'[i].phone])
    BY <1>2, <1>4, <1>5, <1>6
  <2> QED
    BY <1>1, <1>2, <1>4, <1>5, <2>1, <2>2, <2>3 DEF EditOK, vars
<1>17. EditStep
  <2>1. Told[i] = "nothing" /\ Told' = [Told EXCEPT ![i] = "queued"]
    BY <1>2, <1>4, <1>5 DEF Told
  <2>2. EditRecords!Defer(i)
    BY <1>1, <1>2, <2>1 DEF EditRecords!Defer, Told
  <2> QED
    BY <2>2 DEF EditStep, EditRecords!EditNext
<1>18. \A j \in Edits : \/ EditOK(j)'
                        \/ /\ edit'[j] = edit[j]
                           /\ applied'[j] = applied[j]
                           /\ syncEvent'[j] = syncEvent[j]
  BY <1>1, <1>5, <1>16
<1> QED
  BY <1>7, <1>8, <1>13, <1>14, <1>15, <1>17, <1>18, <1>19, Assemble

\* The phone reads the answer to a batch.
LEMMA ReceiveStep ==
  ASSUME OfflineInv, NEW r \in Requests, ReceiveResult(r)
  PROVE  OfflineInv' /\ EditStep /\ Onward
<1> DEFINE p == request[r].phone
           gone == {i \in Edits : request[r].verdict[i] \in {"applied", "rejected"}}
           shown == {i \in Edits : request[r].verdict[i] = "conflict"}
<1>1. /\ request[r].waiting /\ request[r].kind = "sync"
      /\ request' = [request EXCEPT ![r] = NoRequest]
      /\ queue' = [queue EXCEPT ![p] = Without(@, gone)]
      /\ conflicts' = [conflicts EXCEPT ![p] = shown]
      /\ Save(p)
      /\ UNCHANGED <<vars, edit, syncEvent, applied>>
  BY DEF ReceiveResult, Succeeded, Waiting, Read
<1>2. p \in Phones /\ BatchOK(r)
  BY <1>1 DEF OfflineInv, RequestInv, RequestOK, NoRequest
<1>3. /\ \A i \in gone : syncEvent[i] \in {"applied", "rejected"}
      /\ \A i \in shown : i \in ToSet(queue[p]) /\ i \notin gone
      /\ shown \in SUBSET Edits
  BY <1>1, <1>2 DEF BatchOK, Kept
<1> HIDE DEF p, gone, shown
<1>4. /\ queue' \in [Phones -> Seq(Edits)]
      /\ \A o \in Phones : ToSet(queue'[o]) = IF o = p THEN ToSet(queue[p]) \ gone
                                                       ELSE ToSet(queue[o])
  <2>1. queue[p] \in Seq(Edits)
    BY <1>2 DEF OfflineInv, ColumnsOK
  <2>2. /\ Without(queue[p], gone) \in Seq(Edits)
        /\ ToSet(Without(queue[p], gone)) = ToSet(queue[p]) \ gone
    BY <2>1, WithoutKeeps
  <2> QED
    BY <1>1, <1>2, <2>2 DEF OfflineInv, ColumnsOK
<1>14. /\ FileInv'
       /\ missed \subseteq missed'
       /\ \A o \in Phones : ToSet(file'[o]) \subseteq ToSet(file[o]) \cup ToSet(queue'[o])
  BY <1>1, <1>2, <1>4, SaveEffect DEF OfflineInv
<1>5. BaseInv' /\ \A s \in Spools : Grows(s)
  BY <1>1, BaseSame DEF OfflineInv, BaseInv
<1>6. Onward
  <2>1. \A j \in Edits, o \in Phones : Kept(j, o) => Kept(j, o)'
    BY <1>1, <1>3, <1>4 DEF Kept
  <2> QED
    BY <1>1, <1>5, <1>14, <2>1 DEF Onward
<1>7. /\ request' \in [Requests -> RequestRow]
      /\ request'[r] = NoRequest
      /\ \A q \in Requests : q # r => request'[q] = request[q]
  BY <1>1, NoRequestType, RequestExcept DEF OfflineInv
<1>8. ASSUME NEW q \in Requests PROVE MovesOn(q)
  <2>1. CASE q # r
    BY <1>1, <1>7, <2>1, OthersMoveOn DEF OfflineInv
  <2> QED
    BY <1>7, <2>1 DEF MovesOn
<1>9. conflicts' \in [Phones -> SUBSET Edits]
  BY <1>1, <1>3 DEF OfflineInv, ColumnsOK
<1>10. ColumnsOK'
  BY <1>1, <1>4, <1>7, <1>9 DEF OfflineInv, ColumnsOK
<1>11. QueuedAreTold'
  BY <1>1, <1>4, <1>14 DEF OfflineInv, QueuedAreTold
<1>12. ConflictsAreQueued'
  <2>1. \A o \in Phones : conflicts'[o] = IF o = p THEN shown ELSE conflicts[o]
    BY <1>1 DEF OfflineInv, ColumnsOK
  <2> QED
    BY <1>3, <1>4, <2>1 DEF OfflineInv, ConflictsAreQueued
<1>13. EditStep
  BY <1>1 DEF EditStep, Told
<1> QED
  BY <1>1, <1>5, <1>6, <1>8, <1>10, <1>11, <1>12, <1>13, <1>14, Assemble

\* The server records the outcome of an item, and the loop goes on or ends.
LEMMA RecordStep ==
  ASSUME OfflineInv, NEW r \in Requests, RecordItem(r)
  PROVE  OfflineInv' /\ EditStep /\ Onward
<1> DEFINE row == request[r]
           next == [row EXCEPT !.left = Tail(@), !.verdict[Head(row.left)] = row.current,
                               !.current = "none"]
           new == IF next.left = <<>> THEN Over(next, "answered", TRUE) ELSE next
<1>1. /\ row.state = "handling" /\ row.current # "none"
      /\ syncEvent[Head(row.left)] = "none"
      /\ syncEvent' = [syncEvent EXCEPT ![Head(row.left)] = row.current]
      /\ request' = [request EXCEPT ![r] = new]
      /\ UNCHANGED <<vars, edit, queue, file, conflicts, applied, missed>>
  BY DEF RecordItem
<1>2. /\ row \in RequestRow /\ row.phone \in Phones /\ row.kind = "sync" /\ BatchOK(r)
      /\ row.left \in Seq(Edits) /\ Tail(row.left) \in Seq(Edits)
      /\ ToSet(row.left) = {Head(row.left)} \cup ToSet(Tail(row.left))
  BY <1>1, BatchInHand
<1> PICK i \in Edits : i = Head(row.left)
  BY <1>1, BatchInHand
<1>3. /\ edit[i].told = "queued" /\ Settled(i)
      /\ row.waiting => Kept(i, row.phone)
      /\ row.current = "applied" => applied[i] = 1
      /\ row.current \in {"applied", "conflict", "rejected"}
  <2>1. row.current \in Verdicts
    BY <1>2 DEF RequestRow
  <2> QED
    BY <1>1, <1>2, <2>1, BatchInHand DEF BatchOK, Verdicts
<1>4. /\ syncEvent' \in [Edits -> Verdicts]
      /\ syncEvent[i] = "none" /\ syncEvent'[i] = row.current
      /\ \A j \in Edits : j # i => syncEvent'[j] = syncEvent[j]
  BY <1>1, <1>3 DEF OfflineInv, ColumnsOK, Verdicts
<1>5. /\ next \in RequestRow
      /\ next.kind = "sync" /\ next.phone = row.phone /\ next.waiting = row.waiting
      /\ next.state = "handling" /\ next.current = "none"
      /\ next.left = Tail(row.left)
      /\ next.verdict[i] = row.current
      /\ \A j \in Edits : j # i => next.verdict[j] = row.verdict[j]
  BY <1>1, <1>2, <1>3 DEF RequestRow, Verdicts
<1> HIDE DEF next
<1>6. new # NoRequest =>
        /\ new \in RequestRow
        /\ new.kind = "sync" /\ new.phone = row.phone /\ new.waiting = row.waiting
        /\ new.state \in {"handling", "answered"} /\ new.current = "none"
        /\ new.left = next.left /\ new.verdict = next.verdict
        /\ new.state = "handling" => new.left # <<>>
  <2> DEFINE last == [next EXCEPT !.state = "answered", !.ok = TRUE]
  <2>1. /\ last \in RequestRow
        /\ last.kind = "sync" /\ last.phone = row.phone /\ last.waiting = row.waiting
        /\ last.state = "answered" /\ last.current = "none"
        /\ last.left = next.left /\ last.verdict = next.verdict
    BY <1>5 DEF RequestRow
  <2>2. new = IF next.left = <<>> THEN IF next.waiting THEN last ELSE NoRequest ELSE next
    BY DEF Over
  <2> HIDE DEF last, new
  <2> QED
    BY <1>5, <2>1, <2>2
<1> HIDE DEF new
<1>7. /\ request'[r] = new
      /\ \A q \in Requests : q # r => request'[q] = request[q]
      /\ request' \in [Requests -> RequestRow]
  BY <1>1, <1>6, NoRequestType, RequestExcept DEF OfflineInv
<1>8. BaseInv' /\ \A s \in Spools : Grows(s)
  BY <1>1, BaseSame DEF OfflineInv, BaseInv
<1>9. \A j \in Edits, o \in Phones : Kept(j, o) => Kept(j, o)'
  BY <1>1, <1>4 DEF Kept
<1>10. Onward
  BY <1>1, <1>4, <1>8, <1>9 DEF Onward
<1>11. ASSUME new # NoRequest PROVE RequestOK(r)' /\ request'[r].kind = "sync"
  <2>1. /\ request'[r].left = Tail(row.left) /\ request'[r].phone = row.phone
        /\ request'[r].verdict = next.verdict /\ request'[r].current = "none"
        /\ request'[r].waiting = row.waiting
        /\ request'[r].kind = "sync" /\ request'[r].state \in {"handling", "answered"}
        /\ request'[r].state = "handling" => request'[r].left # <<>>
    BY <1>5, <1>6, <1>7, <1>11
  <2>2. \A j \in ToSet(request'[r].left) :
          edit'[j].told = "queued" /\ (row.waiting => Kept(j, row.phone)')
    <3>1. \A j \in ToSet(row.left) :
            j \in Edits /\ edit[j].told = "queued" /\ (row.waiting => Kept(j, row.phone))
      BY <1>2, ToSetParts DEF BatchOK
    <3> QED
      BY <1>1, <1>2, <1>9, <2>1, <3>1 DEF Kept
  <2>3. ASSUME NEW j \in Edits, request'[r].verdict[j] # "none"
        PROVE  /\ syncEvent'[j] = request'[r].verdict[j]
               /\ row.waiting => Kept(j, row.phone)'
    <3>1. CASE j = i
      BY <1>2, <1>3, <1>4, <1>5, <1>9, <2>1, <3>1 DEF Kept
    <3>2. CASE j # i
      <4>1. syncEvent[j] = row.verdict[j] /\ (row.waiting => Kept(j, row.phone))
        BY <1>2, <1>5, <2>1, <2>3, <3>2 DEF BatchOK
      <4> QED
        BY <1>2, <1>4, <1>5, <1>9, <2>1, <3>2, <4>1 DEF Kept
    <3> QED
      BY <3>1, <3>2
  <2>4. BatchOK(r)'
    BY <2>1, <2>2, <2>3 DEF BatchOK, Kept
  <2> QED
    BY <1>2, <2>1, <2>4 DEF RequestOK
<1>12. \A q \in Requests : \/ MovesOn(q)
                           \/ RequestOK(q)' /\ request'[q].kind = "sync"
  <2>1. ASSUME NEW q \in Requests, q # r PROVE MovesOn(q)
    BY <1>1, <1>7, <2>1, OthersMoveOn DEF OfflineInv
  <2> QED
    BY <1>7, <1>11, <2>1 DEF MovesOn
<1>13. ColumnsOK' /\ QueuedAreTold' /\ FileInv' /\ ConflictsAreQueued'
  BY <1>1, <1>4, <1>7 DEF OfflineInv, ColumnsOK, QueuedAreTold, FileInv, ConflictsAreQueued
<1>14. EditOK(i)'
  <2>1. EditOK(i)
    BY DEF OfflineInv, EditInv
  <2>2. Settled(i)'
    BY <1>3, <1>10, SettledStays DEF OfflineInv
  <2>3. edit[i].phone \in Phones
    BY <1>3, <2>1 DEF EditOK
  <2>4. i \in ToSet(queue[edit[i].phone]) \/ i \in missed
    BY <1>3, <1>4, <2>1 DEF EditOK
  <2> QED
    BY <1>1, <1>3, <2>1, <2>2, <2>4 DEF EditOK, vars
<1>15. EditStep
  <2>1. EditRecords!Record(i, row.current)
    BY <1>1, <1>3, <1>4 DEF EditRecords!Record
  <2> QED
    BY <1>3, <2>1 DEF EditStep, EditRecords!EditNext
<1>16. \A j \in Edits : \/ EditOK(j)'
                        \/ /\ edit'[j] = edit[j]
                           /\ applied'[j] = applied[j]
                           /\ syncEvent'[j] = syncEvent[j]
  BY <1>1, <1>4, <1>14
<1> QED
  BY <1>8, <1>10, <1>12, <1>13, <1>15, <1>16, Assemble

\* A user submits an edit.
LEMMA SubmitNowStep ==
  ASSUME OfflineInv, NEW p \in Phones, NEW s \in Spools, NEW weight \in EditWeights,
         NEW r \in Requests, SubmitNow(p, s, weight, r)
  PROVE  OfflineInv' /\ EditStep /\ Onward
<1> PICK i \in Edits :
      /\ edit[i].told = "unused"
      /\ edit' = [edit EXCEPT ![i] =
           [told |-> "nothing", phone |-> p, spool |-> s,
            version |-> seen[p][s].version, weight |-> weight]]
      /\ Send(r, "adjustment", p, <<i>>)
  BY DEF SubmitNow
<1> DEFINE new == [told |-> "nothing", phone |-> p, spool |-> s,
                   version |-> seen[p][s].version, weight |-> weight]
           row == [NoRequest EXCEPT !.state = "sent", !.kind = "adjustment", !.phone = p,
                                    !.waiting = TRUE, !.left = <<i>>]
<1>1. /\ UNCHANGED <<vars, queue, file, conflicts, syncEvent, applied, missed>>
      /\ seen[p][s].row = "live"
      /\ edit[i].told = "unused"
      /\ edit' = [edit EXCEPT ![i] = new]
      /\ request' = [request EXCEPT ![r] = row]
  BY DEF SubmitNow, Send
<1>2. /\ seen[p][s].version \in Nat
      /\ seen[p][s].version <= spool[s].version
      /\ spool[s].row # "none"
  BY <1>1, PhoneAssumption DEF OfflineInv, TypeOK, SpoolRow, VersionInv
<1>3. /\ new \in EditRow
      /\ new.told = "nothing" /\ new.phone = p /\ new.spool = s
      /\ new.version = seen[p][s].version
  BY <1>2, PhoneAssumption DEF EditRow
<1>4. /\ row \in RequestRow
      /\ row.kind = "adjustment" /\ row.state = "sent" /\ row.phone = p /\ row.left = <<i>>
  <2>1. <<i>> \in Seq(Edits)
    OBVIOUS
  <2> QED
    BY <2>1, NoRequestType DEF RequestRow, NoRequest
<1> HIDE DEF new, row
<1>5. /\ edit' \in [Edits -> EditRow]
      /\ edit'[i] = new
      /\ \A j \in Edits : j # i => edit'[j] = edit[j]
  BY <1>1, <1>3 DEF OfflineInv, ColumnsOK
<1>6. /\ request' \in [Requests -> RequestRow]
      /\ request'[r] = row
      /\ \A q \in Requests : q # r => request'[q] = request[q]
  BY <1>1, <1>4, RequestExcept DEF OfflineInv
<1>7. BaseInv' /\ \A x \in Spools : Grows(x)
  BY <1>1, BaseSame DEF OfflineInv, BaseInv
<1>8. Onward
  BY <1>1, <1>5, <1>7 DEF Onward, Kept
<1>9. ASSUME NEW q \in Requests, request[q].kind = "adjustment", request[q].left = <<i>>
      PROVE  FALSE
  <2> PICK j \in Edits : AdjustmentOK(q, j)
    BY <1>9 DEF OfflineInv, RequestInv, RequestOK
  <2>1. j = i /\ edit[j].told # "unused"
    BY <1>9 DEF AdjustmentOK
  <2> QED
    BY <1>1, <2>1
<1>10. RequestInv'
  <2>1. ASSUME NEW q \in Requests, q # r PROVE RequestOK(q)'
    <3>1. ASSUME NEW j \in Edits, request[q].kind = "adjustment", request[q].left = <<j>>
          PROVE  edit'[j].told = edit[j].told
      BY <1>5, <1>9, <3>1
    <3>2. MovesOn(q)
      BY <1>6, <2>1, <3>1, OthersMoveOn DEF OfflineInv
    <3> QED
      BY <1>8, <3>2, FreeRequestOK, CarriedOK DEF MovesOn, OfflineInv, RequestInv
  <2>2. AdjustmentOK(r, i)'
    BY <1>3, <1>4, <1>5, <1>6 DEF AdjustmentOK
  <2>3. RequestOK(r)'
    <3>1. row.left # <<>>
      BY <1>4
    <3> QED
      BY <1>4, <1>6, <2>2, <3>1 DEF RequestOK
  <2>4. \A q, o \in Requests :
          /\ request'[q].kind = "adjustment"
          /\ request'[o].kind = "adjustment"
          /\ request'[q].left = request'[o].left
          => q = o
    BY <1>4, <1>6, <1>9 DEF OfflineInv, RequestInv
  <2> QED
    BY <2>1, <2>3, <2>4 DEF RequestInv
<1>11. EditInv'
  <2>1. ASSUME NEW j \in Edits, j # i PROVE EditOK(j)'
    BY <1>1, <1>5, <1>8, <2>1, EditStays DEF OfflineInv
  <2>2. EditOK(i)'
    <3>1. applied[i] = 0 /\ syncEvent[i] = "none"
      BY <1>1 DEF OfflineInv, EditInv, EditOK
    <3> QED
      BY <1>1, <1>2, <1>3, <1>5, <3>1 DEF EditOK, vars
  <2> QED
    BY <2>1, <2>2 DEF EditInv
<1>12. ColumnsOK' /\ FileInv' /\ ConflictsAreQueued'
  BY <1>1, <1>5, <1>6 DEF OfflineInv, ColumnsOK, FileInv, ConflictsAreQueued
<1>13. QueuedAreTold'
  <2>1. ASSUME NEW o \in Phones, NEW j \in ToSet(queue[o]) \cup ToSet(file[o])
        PROVE  edit'[j].told = "queued"
    <3>1. edit[j].told = "queued" /\ j \in Edits
      BY ToSetParts DEF OfflineInv, QueuedAreTold, ColumnsOK, FileInv
    <3> QED
      BY <1>1, <1>5, <3>1
  <2> QED
    BY <1>1, <2>1 DEF QueuedAreTold
<1>14. EditStep
  <2>1. Told[i] = "unused" /\ Told' = [Told EXCEPT ![i] = "nothing"]
    BY <1>1, <1>3, <1>5 DEF Told
  <2>2. EditRecords!Make(i)
    BY <1>1, <2>1 DEF EditRecords!Make, Told
  <2> QED
    BY <2>2 DEF EditStep, EditRecords!EditNext
<1> QED
  BY <1>7, <1>8, <1>10, <1>11, <1>12, <1>13, <1>14 DEF OfflineInv, BaseInv

\* The app stops and starts.
LEMMA RestartStep ==
  ASSUME OfflineInv, NEW p \in Phones, RestartApp(p)
  PROVE  OfflineInv' /\ EditStep /\ Onward
<1>1. /\ conflicts' = [conflicts EXCEPT ![p] = {}]
      /\ seen' = [seen EXCEPT ![p] = [s \in Spools |-> NoSpool]]
      /\ request' = [r \in Requests |->
                       IF request[r].waiting /\ request[r].phone = p
                       THEN Abandoned(request[r]) ELSE request[r]]
      /\ UNCHANGED <<catalog, spool, usage, tag, slot, clock, opening,
                     edit, file, syncEvent, applied>>
      /\ Load(p)
  BY DEF RestartApp, Load
<1>2. NoSpool \in SpoolRow /\ NoSpool.version = 0 /\ NoSpool.row = "none"
  BY DEF NoSpool, SpoolRow, RowStates
<1>3. /\ seen' \in [Clients -> [Spools -> SpoolRow]]
      /\ \A c \in Clients, s \in Spools : seen'[c][s] \in {seen[c][s], NoSpool}
  BY <1>1, <1>2 DEF OfflineInv, TypeOK
<1>4. TypeOK'
  BY <1>1, <1>3 DEF OfflineInv, TypeOK
<1>5. ActiveTagsAgree'
  BY <1>1, AgreeFrame DEF OfflineInv
<1>6. VersionInv' /\ \A s \in Spools : Grows(s)
  <2>1. \A s \in Spools : spool[s].version \in Nat
    BY DEF OfflineInv, TypeOK, SpoolRow
  <2> QED
    BY <1>1, <1>2, <1>3, <2>1 DEF OfflineInv, VersionInv, Grows
<1>12. /\ queue' \in [Phones -> Seq(Edits)]
       /\ missed \subseteq missed' /\ missed' \subseteq Edits
       /\ \A o \in Phones : o # p => queue'[o] = queue[o]
       /\ ToSet(queue'[p]) \subseteq ToSet(file[p])
       /\ ToSet(file[p]) \subseteq ToSet(queue'[p]) \cup missed'
  <2>1. <<>> \in Seq(Edits) /\ ToSet(<<>>) = {}
    BY ToSetParts
  <2>2. file[p] \in Seq(Edits) /\ ToSet(file[p]) \subseteq Edits
    BY ToSetParts DEF OfflineInv, FileInv
  <2>3. CASE queue' = [queue EXCEPT ![p] = file[p]] /\ UNCHANGED missed
    BY <2>2, <2>3 DEF OfflineInv, ColumnsOK, FileInv
  <2>4. CASE queue' = [queue EXCEPT ![p] = <<>>] /\ missed' = missed \cup ToSet(file[p])
    BY <2>1, <2>2, <2>4 DEF OfflineInv, ColumnsOK, FileInv
  <2> QED
    BY <1>1, <2>3, <2>4 DEF Load
<1>13. FileInv'
  BY <1>1, <1>12 DEF OfflineInv, FileInv
<1>14. Deaf(p)'
  <2>1. ASSUME NEW r \in Requests, request'[r].phone = p PROVE ~request'[r].waiting
    <3>1. CASE request[r].waiting /\ request[r].phone = p
      <4>1. request'[r] = Abandoned(request[r]) /\ request[r] \in RequestRow
        BY <1>1, <3>1 DEF OfflineInv, ColumnsOK
      <4> QED
        BY <4>1 DEF Abandoned, NoRequest, RequestRow
    <3>2. CASE ~(request[r].waiting /\ request[r].phone = p)
      BY <1>1, <2>1, <3>2
    <3> QED
      BY <3>1, <3>2
  <2> QED
    BY <2>1 DEF Deaf
<1>7. Onward
  <2>1. \A i \in Edits, o \in Phones :
          Kept(i, o) => Kept(i, o)' \/ (i \in missed' /\ Deaf(o)')
    <3>1. \A i \in ToSet(queue[p]) : i \in ToSet(queue'[p]) \/ i \in missed'
      BY <1>12 DEF OfflineInv, FileInv
    <3> QED
      BY <1>1, <1>12, <1>14, <3>1 DEF Kept
  <2> QED
    BY <1>1, <1>6, <1>12, <2>1 DEF Onward
<1>8. ASSUME NEW r \in Requests PROVE MovesOn(r) /\ request'[r] \in RequestRow
  <2>1. CASE request[r].waiting /\ request[r].phone = p
    <3>1. request[r].state # "free"
      BY <2>1 DEF OfflineInv, RequestInv, RequestOK, NoRequest
    <3> QED
      BY <1>1, <2>1, <3>1, AbandonedMovesOn DEF OfflineInv
  <2>2. CASE ~(request[r].waiting /\ request[r].phone = p)
    <3>1. request'[r] = request[r] /\ request[r] \in RequestRow
      BY <1>1, <2>2 DEF OfflineInv, ColumnsOK
    <3> QED
      BY <1>1, <3>1, OthersMoveOn DEF OfflineInv
  <2> QED
    BY <2>1, <2>2
<1>9. request' \in [Requests -> RequestRow]
  BY <1>1, <1>8
<1>10. ColumnsOK' /\ QueuedAreTold' /\ ConflictsAreQueued'
  <2>1. ColumnsOK'
    BY <1>1, <1>9, <1>12 DEF OfflineInv, ColumnsOK
  <2>2. QueuedAreTold'
    BY <1>1, <1>12 DEF OfflineInv, QueuedAreTold
  <2>3. \A o \in Phones : conflicts'[o] = IF o = p THEN {} ELSE conflicts[o]
    BY <1>1 DEF OfflineInv, ColumnsOK
  <2> QED
    BY <1>12, <2>1, <2>2, <2>3 DEF OfflineInv, ConflictsAreQueued
<1>11. EditStep
  BY <1>1 DEF EditStep, Told
<1> QED
  BY <1>1, <1>4, <1>5, <1>6, <1>7, <1>8, <1>10, <1>11, <1>13, Assemble DEF BaseInv

LEMMA OtherStep ==
  ASSUME OfflineInv, OtherNext
  PROVE  OfflineInv' /\ EditStep /\ Onward
<1>1. [Next]_vars /\ UNCHANGED <<edit, queue, file, conflicts, request, syncEvent, applied, missed>>
  BY DEF OtherNext, offlineVars
<1>2. BaseInv' /\ \A s \in Spools : Grows(s)
  BY <1>1, TypeStep, AgreeStep, NextGrows DEF OfflineInv, BaseInv
<1>3. request' \in [Requests -> RequestRow]
  BY <1>1 DEF OfflineInv, ColumnsOK
<1>4. \A r \in Requests : MovesOn(r)
  BY <1>1, OthersMoveOn DEF OfflineInv
<1> QED
  BY <1>1, <1>2, <1>3, <1>4, QuietStep

LEMMA StutterStep ==
  ASSUME OfflineInv, UNCHANGED allVars
  PROVE  OfflineInv' /\ EditStep /\ Onward
<1>1. UNCHANGED vars /\ UNCHANGED <<edit, queue, file, conflicts, request, syncEvent, applied, missed>>
  BY DEF allVars, offlineVars
<1>2. BaseInv' /\ \A s \in Spools : Grows(s)
  BY <1>1, BaseSame DEF OfflineInv, BaseInv
<1>3. request' \in [Requests -> RequestRow]
  BY <1>1 DEF OfflineInv, ColumnsOK
<1>4. \A r \in Requests : MovesOn(r)
  BY <1>1, OthersMoveOn DEF OfflineInv
<1> QED
  BY <1>1, <1>2, <1>3, <1>4, QuietStep
-----------------------------------------------------------------------------
(***************************************************************************)
(* The theorems                                                            *)
(***************************************************************************)
LEMMA OfflineInitial == OfflineInit => OfflineInv /\ EditRecords!EditInit
<1> SUFFICES ASSUME OfflineInit PROVE OfflineInv /\ EditRecords!EditInit
  OBVIOUS
<1>1. TypeOK /\ ActiveTagsAgree
  BY TypeInit, AgreeInit DEF OfflineInit
<1>2. VersionInv
  BY DEF OfflineInit, Init, VersionInv, NoSpool
<1>3. ToSet(<<>>) = {}
  BY ToSetParts
<1>4. ColumnsOK
  <2>1. NoEdit \in EditRow /\ <<>> \in Seq(Edits)
    BY DEF NoEdit, EditRow
  <2> QED
    BY <2>1, NoRequestType DEF OfflineInit, ColumnsOK, Verdicts
<1>5. EditInv
  BY DEF OfflineInit, EditInv, EditOK, NoEdit
<1>6. QueuedAreTold /\ FileInv /\ ConflictsAreQueued
  <2>1. <<>> \in Seq(Edits)
    OBVIOUS
  <2> QED
    BY <1>3, <2>1 DEF OfflineInit, QueuedAreTold, FileInv, ConflictsAreQueued
<1>7. RequestInv
  BY <1>3 DEF OfflineInit, RequestInv, RequestOK, BatchOK, NoRequest
<1>8. EditRecords!EditInit
  BY DEF OfflineInit, EditRecords!EditInit, NoEdit
<1> QED
  BY <1>1, <1>2, <1>4, <1>5, <1>6, <1>7, <1>8 DEF OfflineInv

LEMMA OfflineStep ==
  ASSUME OfflineInv, [OfflineNext]_allVars
  PROVE  OfflineInv' /\ EditStep /\ Onward
<1>1. CASE PhoneNext
  BY <1>1, SubmitNowStep, ConfirmStep, QueueStep, SubmitQueueStep, ReceiveStep, GiveUpStep
  DEF PhoneNext
<1>2. CASE ServerNext
  BY <1>2, AcceptStep, AdjustItemStep, RefuseStep, BeginStep, RefuseItemStep, RecordStep
  DEF ServerNext
<1>3. CASE FailureNext
  BY <1>3, RefuseStep, RestartStep DEF FailureNext
<1> QED
  BY <1>1, <1>2, <1>3, OtherStep, StutterStep DEF OfflineNext

LEMMA OfflineInvariant == OfflineSpec => []OfflineInv
BY OfflineInitial, OfflineStep, PTL DEF OfflineSpec

\* The phone's and the server's records keep their types, and a request under
\* way always has an edit to handle.
THEOREM OfflineTypes == OfflineSpec => []OfflineTypeOK
<1>1. ASSUME OfflineInv PROVE OfflineTypeOK
  <2>1. ASSUME NEW r \in Requests, request[r].state \in {"sent", "handling"}
        PROVE  /\ request[r].left # <<>>
               /\ \A i \in ToSet(request[r].left) : edit[i].told # "unused"
    <3>1. RequestOK(r) /\ request[r].kind \in {"adjustment", "sync"}
      BY <1>1 DEF OfflineInv, RequestInv, ColumnsOK, RequestRow
    <3>2. CASE request[r].kind = "sync"
      BY <2>1, <3>1, <3>2 DEF RequestOK, BatchOK
    <3>3. CASE request[r].kind = "adjustment"
      <4> PICK i \in Edits : AdjustmentOK(r, i)
        BY <3>1, <3>3 DEF RequestOK
      <4>1. ToSet(request[r].left) = {i} /\ edit[i].told # "unused"
        BY ToSetParts DEF AdjustmentOK
      <4> QED
        BY <2>1, <3>1, <4>1 DEF RequestOK
    <3> QED
      BY <3>1, <3>2, <3>3
  <2> QED
    BY <1>1, <2>1 DEF OfflineInv, ColumnsOK, FileInv, EditInv, EditOK, OfflineTypeOK
<1> QED
  BY <1>1, OfflineInvariant, PTL

\* However often an edit is sent, by any number of phones in any number of
\* requests and whatever is lost, it is applied at most once: the version it
\* names is gone once it is.
THEOREM EditsOnce == OfflineSpec => []AtMostOnce
<1>1. OfflineInv => AtMostOnce
  BY DEF OfflineInv, EditInv, EditOK, ColumnsOK, AtMostOnce
<1> QED
  BY <1>1, OfflineInvariant, PTL

\* "Applied" was applied, and what is "Queued offline" stays in the queue until
\* the server has recorded that it applied or rejected it, through any restarts,
\* unless a save or a load of the file failed to keep that edit.
THEOREM TruthTold == OfflineSpec => []PhoneTellsTruth
<1>1. OfflineInv => PhoneTellsTruth
  BY DEF OfflineInv, EditInv, EditOK, PhoneTellsTruth
<1> QED
  BY <1>1, OfflineInvariant, PTL

\* What a step makes of a weight: nothing, a weight that is not negative, or the
\* weight of an edit that is queued and now applied.
LEMMA WeightStep ==
  ASSUME OfflineInv, [OfflineNext]_allVars, NEW s \in Spools
  PROVE  \/ spool'[s].remaining = spool[s].remaining
         \/ spool'[s].remaining >= 0
         \/ \E i \in Edits : /\ edit[i].told = "queued"
                           /\ edit[i].spool = s
                           /\ edit[i].weight = spool'[s].remaining
                           /\ applied'[i] = 1
<1>1. CASE UNCHANGED spool
  BY <1>1
<1>2. ASSUME NEW i \in Edits, NEW e \in Events, edit[i].told # "unused", Apply(i, e)
      PROVE  /\ spool'[s].remaining = IF s = edit[i].spool THEN edit[i].weight
                                                         ELSE spool[s].remaining
             /\ applied'[i] = 1
  <2>1. edit[i].spool \in Spools /\ edit[i].weight \in Int /\ edit[i].version \in Nat
    BY <1>2 DEF OfflineInv, EditInv, EditOK, ColumnsOK, EditRow
  <2>2. applied'[i] = 1
    BY <1>2, ApplyEffect DEF OfflineInv, ColumnsOK
  <2>3. AdjustWeight(edit[i].spool, edit[i].version, e, edit[i].weight)
    BY <1>2 DEF Apply
  <2>4. Written(edit[i].spool, spool[edit[i].spool].row, edit[i].weight,
                spool[edit[i].spool].active_tag)
    BY <2>1, <2>3, AdjustType DEF OfflineInv
  <2> QED
    BY <2>1, <2>2, <2>4 DEF Written
<1>3. ASSUME NEW r \in Requests, NEW e \in Events, AcceptAdjustment(r, e)
      PROVE  spool'[s].remaining = spool[s].remaining \/ spool'[s].remaining >= 0
  <2>1. request[r].kind = "adjustment"
    BY <1>3 DEF AcceptAdjustment, Sent
  <2> PICK i \in Edits : AdjustmentOK(r, i)
    BY <2>1 DEF OfflineInv, RequestInv, RequestOK
  <2>2. Head(request[r].left) = i /\ edit[i].told # "unused"
    BY DEF AdjustmentOK
  <2>3. Apply(i, e) /\ edit[i].weight >= 0
    BY <1>3, <2>2 DEF AcceptAdjustment
  <2> QED
    BY <1>2, <2>2, <2>3
<1>4. ASSUME NEW r \in Requests, NEW e \in Events, AdjustItem(r, e)
      PROVE  \/ spool'[s].remaining = spool[s].remaining
             \/ \E i \in Edits : /\ edit[i].told = "queued"
                               /\ edit[i].spool = s
                               /\ edit[i].weight = spool'[s].remaining
                               /\ applied'[i] = 1
  <2>1. request[r].state = "handling" /\ Apply(Head(request[r].left), e)
    BY <1>4 DEF AdjustItem
  <2> PICK i \in Edits : i = Head(request[r].left)
    BY <2>1, BatchInHand
  <2>2. edit[i].told = "queued" /\ Apply(i, e)
    BY <2>1, BatchInHand
  <2> QED
    BY <1>2, <2>2
<1>5. CASE OtherNext
  <2>1. ASSUME NEW x \in Spools, Created(x) \/ Rewritten(x)
        PROVE  spool'[s].remaining = spool[s].remaining \/ spool'[s].remaining >= 0
    BY <2>1 DEF Created, Rewritten
  <2>2. TypeOK /\ [Next]_vars
    BY <1>5 DEF OtherNext, OfflineInv
  <2> QED
    BY <1>1, <2>1, <2>2, SpoolSteps DEF FetchSpool
<1>6. CASE PhoneNext
  BY <1>1, <1>6 DEF PhoneNext, SubmitNow, ConfirmAdjustment, QueueAdjustment, SubmitQueue,
                    ReceiveResult, GiveUpSync, vars
<1>7. CASE ServerNext
  BY <1>1, <1>3, <1>4, <1>7 DEF ServerNext, RefuseAdjustment, BeginBatch, RefuseBatch,
                                RefuseItem, RecordItem, FailItem, vars
<1>8. CASE FailureNext
  BY <1>1, <1>8 DEF FailureNext, Lose, RestartApp, vars
<1> QED
  BY <1>1, <1>5, <1>6, <1>7, <1>8 DEF OfflineNext, allVars, vars

\* A weight below zero is that of an edit that a phone queued and the sync route
\* applied, for any weights typed: no other way to one exists between restores.
THEOREM NegativeWeightsQueued == OfflineSpec => []NegativeWeightWasQueued
<1>1. OfflineInit => NegativeWeightWasQueued
  BY DEF OfflineInit, Init, NoSpool, NegativeWeightWasQueued
<1>2. ASSUME OfflineInv, NegativeWeightWasQueued, [OfflineNext]_allVars
      PROVE  NegativeWeightWasQueued'
  <2> SUFFICES ASSUME NEW s \in Spools, spool'[s].remaining < 0
               PROVE  \E i \in Edits : /\ edit'[i].told = "queued"
                                     /\ edit'[i].spool = s
                                     /\ edit'[i].weight = spool'[s].remaining
                                     /\ applied'[i] = 1
    BY DEF NegativeWeightWasQueued
  <2>1. OfflineInv' /\ Onward
    BY <1>2, OfflineStep
  <2>2. \E i \in Edits : /\ edit[i].told = "queued"
                       /\ edit[i].spool = s
                       /\ edit[i].weight = spool'[s].remaining
                       /\ applied'[i] = 1
    <3>1. CASE spool'[s].remaining = spool[s].remaining
      <4>1. PICK i \in Edits : /\ edit[i].told = "queued"
                              /\ edit[i].spool = s
                              /\ edit[i].weight = spool[s].remaining
                              /\ applied[i] = 1
        BY <1>2, <3>1 DEF NegativeWeightWasQueued
      <4> QED
        BY <2>1, <3>1, <4>1 DEF Onward
    <3>2. spool'[s].remaining \in Int
      BY <2>1 DEF OfflineInv, TypeOK, SpoolRow
    <3>3. ~(spool'[s].remaining >= 0)
      BY <3>2
    <3> QED
      BY <1>2, <3>1, <3>3, WeightStep
  <2> QED
    BY <2>1, <2>2 DEF Onward
<1> QED
  BY <1>1, <1>2, OfflineInvariant, PTL DEF OfflineSpec

\* A conflict the phone shows is in its queue, in whatever order answers come.
THEOREM ConflictsQueued == OfflineSpec => []ConflictsAreQueued
<1>1. OfflineInv => ConflictsAreQueued
  BY DEF OfflineInv
<1> QED
  BY <1>1, OfflineInvariant, PTL

\* The phones, the server and the network implement the ledger of edits: initial
\* states map to initial states and every step to a step or a stutter.
THEOREM EditsImplementLedger == OfflineSpec => ImplementsEdits
<1>1. OfflineInit => EditRecords!EditInit
  BY OfflineInitial
<1>2. OfflineInv /\ [OfflineNext]_allVars => [EditRecords!EditNext]_(EditRecords!editVars)
  BY OfflineStep DEF EditStep, EditRecords!editVars, Told
<1> QED
  BY <1>1, <1>2, OfflineInvariant, PTL DEF OfflineSpec, ImplementsEdits, EditRecords!EditSpec
=============================================================================
