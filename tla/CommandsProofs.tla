----------------------------- MODULE CommandsProofs -----------------------------
(***************************************************************************)
(* Proofs about what people do with their machines: the overview           *)
(* (Overview, over the lists of Directory), renaming a machine             *)
(* (MachineNames) and viewing its sessions from several clients            *)
(* (TmuxViews).                                                            *)
(***************************************************************************)
EXTENDS Overview, MachineNames, TmuxViews,
        FiniteSetTheorems, NaturalsInduction, WellFoundedInduction, TLAPS

-----------------------------------------------------------------------------
(* The lists of Directory.                                                 *)

IsList(list) == \E S : list \in Seq(S)

\* What a list is made of.
LEMMA ListShape ==
    ASSUME NEW list, IsList(list)
    PROVE  Len(list) \in Nat /\ DOMAIN list = 1 .. Len(list)
  BY DEF IsList

\* A function on an initial segment is a list.
LEMMA ListOfDomain ==
    ASSUME NEW n \in Nat, NEW list, NEW T, list \in [1 .. n -> T]
    PROVE  IsList(list) /\ Len(list) = n
<1>1. list \in Seq(T)
  OBVIOUS
<1> QED
  BY <1>1 DEF IsList

\* A set of positions has a first one.
LEMMA LeastOf ==
    ASSUME NEW S \in SUBSET Nat, S # {}
    PROVE  Least(S) \in S
<1>1. IsWellFoundedOn(OpToRel(<, Nat), Nat)
  BY NatLessThanWellFounded
<1>2. PICK x \in S : \A y \in S : ~(<<y, x>> \in OpToRel(<, Nat))
  BY <1>1, WFMin
<1>3. \A y, z \in Nat : y < z => <<y, z>> \in OpToRel(<, Nat)
  BY Zenon DEF OpToRel
<1>4. \A y \in S : ~(y < x)
  BY <1>2, <1>3
<1>5. \A y \in S : x <= y
  BY <1>4
<1> QED
  BY <1>5 DEF Least

\* Every rank up to the number of positions is the rank of one.
LEMMA RanksTaken ==
    ASSUME NEW I \in SUBSET Int, IsFiniteSet(I), NEW k \in 1 .. Cardinality(I)
    PROVE  \E i \in I : Cardinality({j \in I : j <= i}) = k
<1> DEFINE upto(i) == {j \in I : j <= i}
           rank == [i \in I |-> Cardinality(upto(i))]
           n == Cardinality(I)
<1>1. n \in Nat
  BY FS_CardinalityType
<1>2. ASSUME NEW i \in I PROVE IsFiniteSet(upto(i)) /\ Cardinality(upto(i)) \in 1 .. n
  <2>1. upto(i) \in SUBSET I /\ i \in upto(i)
    OBVIOUS
  <2>2. IsFiniteSet(upto(i)) /\ Cardinality(upto(i)) <= n
    BY <2>1, FS_Subset
  <2>3. Cardinality(upto(i)) \in Nat /\ Cardinality(upto(i)) # 0
    BY <2>1, <2>2, FS_CardinalityType, FS_EmptySet
  <2> QED
    BY <1>1, <2>2, <2>3
<1>3. ASSUME NEW i \in I, NEW j \in I, i < j PROVE Cardinality(upto(i)) # Cardinality(upto(j))
  <2>0. i \in Int /\ j \in Int /\ \A x \in I : x \in Int
    OBVIOUS
  <2>1. upto(i) \in SUBSET upto(j) /\ j \in upto(j) /\ j \notin upto(i)
    <3>1. j <= j /\ ~(j <= i)
      BY <1>3, <2>0
    <3>2. \A x \in I : x <= i => x <= j
      BY <1>3, <2>0
    <3> QED
      BY <3>1, <3>2
  <2>2. IsFiniteSet(upto(j))
    BY <1>2
  <2> HIDE DEF upto
  <2> QED
    BY <2>1, <2>2, FS_Subset
<1>4. rank \in [I -> 1 .. n]
  BY <1>2
<1>5. \A i, j \in I : rank[i] = rank[j] => i = j
  <2>1. \A i, j \in I : i < j \/ j < i \/ i = j
    OBVIOUS
  <2> HIDE DEF upto
  <2> QED
    BY <1>3, <2>1
<1>6. rank \in Injection(I, 1 .. n)
  <2> HIDE DEF rank
  <2> QED
    BY <1>4, <1>5 DEF Injection, IsInjective
<1>7. IsFiniteSet(1 .. n) /\ Cardinality(1 .. n) = n
  BY <1>1, FS_Interval
<1>8. rank \in Surjection(I, 1 .. n)
  <2> HIDE DEF rank
  <2> QED
    BY <1>6, <1>7, FS_Injection
<1>9. \E i \in I : rank[i] = k
  <2> HIDE DEF rank
  <2> QED
    BY <1>8 DEF Surjection
<1> QED
  BY <1>9

\* Sublist: a list of as many entries, each of them at one of the positions.
LEMMA SublistOf ==
    ASSUME NEW list, NEW I \in SUBSET Int, IsFiniteSet(I)
    PROVE  /\ IsList(Sublist(list, I))
           /\ DOMAIN Sublist(list, I) = 1 .. Cardinality(I) /\ Cardinality(I) \in Nat
           /\ \A k \in DOMAIN Sublist(list, I) : \E i \in I : Sublist(list, I)[k] = list[i]
<1> DEFINE pos(k) == CHOOSE i \in I : Cardinality({j \in I : j <= i}) = k
<1>1. Cardinality(I) \in Nat
  BY FS_CardinalityType
<1>2. \A k \in 1 .. Cardinality(I) : pos(k) \in I
  BY RanksTaken
<1> HIDE DEF pos
<1>3. Sublist(list, I) = [k \in 1 .. Cardinality(I) |-> list[pos(k)]]
  BY DEF Sublist, pos
<1>4. Sublist(list, I) \in [1 .. Cardinality(I) -> {list[i] : i \in I}]
  BY <1>2, <1>3
<1>5. IsList(Sublist(list, I))
  BY <1>1, <1>4, ListOfDomain
<1> QED
  BY <1>1, <1>2, <1>3, <1>5

\* Positions of a list are finitely many integers.
LEMMA PositionsOf ==
    ASSUME NEW n \in Nat, NEW I \in SUBSET (1 .. n)
    PROVE  I \in SUBSET Int /\ I \in SUBSET Nat /\ IsFiniteSet(I)
<1>1. IsFiniteSet(1 .. n)
  BY FS_Interval
<1>2. IsFiniteSet(I)
  BY <1>1, FS_Subset
<1>3. \A i \in 1 .. n : i \in Int /\ i \in Nat
  OBVIOUS
<1>4. \A i \in I : i \in 1 .. n
  OBVIOUS
<1> QED
  BY <1>2, <1>3, <1>4

\* FilterRevoked: none of what is left is revoked.
LEMMA FilterRevokedOf ==
    ASSUME NEW list, NEW n \in Nat, DOMAIN list = 1 .. n, NEW dead
    PROVE  /\ IsList(FilterRevoked(list, dead))
           /\ \A k \in DOMAIN FilterRevoked(list, dead) : FilterRevoked(list, dead)[k].id \notin dead
<1> DEFINE I == {i \in DOMAIN list : list[i].id \notin dead}
<1>1. I \in SUBSET Int /\ IsFiniteSet(I)
  BY PositionsOf
<1>2. \A i \in I : list[i].id \notin dead
  OBVIOUS
<1> HIDE DEF I
<1>3. FilterRevoked(list, dead) = Sublist(list, I)
  BY DEF FilterRevoked, I
<1> QED
  BY <1>1, <1>2, <1>3, SublistOf

\* MergeMachines: a list.
LEMMA MergeMachinesOf ==
    ASSUME NEW a, IsList(a), NEW b, IsList(b)
    PROVE  \E n \in Nat : DOMAIN MergeMachines(a, b) = 1 .. n
<1>1. IsList(a \o b)
  <2>1. PICK S, T : a \in Seq(S) /\ b \in Seq(T)
    BY DEF IsList
  <2>2. a \in Seq(S \cup T) /\ b \in Seq(S \cup T)
    BY <2>1
  <2>3. a \o b \in Seq(S \cup T)
    BY <2>2
  <2> QED
    BY <2>3 DEF IsList
<1> DEFINE ab == a \o b
           firsts == {i \in DOMAIN ab : \A j \in 1 .. (i - 1) : ab[j].id # ab[i].id}
<1>2. firsts \in SUBSET Int /\ IsFiniteSet(firsts)
  <2>1. Len(ab) \in Nat /\ DOMAIN ab = 1 .. Len(ab)
    BY <1>1, ListShape
  <2>2. firsts \in SUBSET (1 .. Len(ab))
    BY <2>1
  <2> HIDE DEF firsts, ab
  <2> QED
    BY <2>1, <2>2, PositionsOf
<1>3. DOMAIN IdsInOrder(ab) = DOMAIN Sublist(ab, firsts)
  BY DEF IdsInOrder
<1> HIDE DEF firsts
<1>4. DOMAIN Sublist(ab, firsts) = 1 .. Cardinality(firsts) /\ Cardinality(firsts) \in Nat
  BY <1>2, SublistOf
<1>5. DOMAIN MergeMachines(a, b) = DOMAIN IdsInOrder(ab)
  BY DEF MergeMachines
<1> QED
  BY <1>3, <1>4, <1>5

\* What is stored by name leaves a list.
LEMMA AddMachineOf ==
    ASSUME NEW list, IsList(list), NEW m
    PROVE  IsList(AddMachine(list, m))
<1>1. PICK S : list \in Seq(S)
  BY DEF IsList
<1>2. list \in Seq(S \cup {m})
  BY <1>1
<1>3. ASSUME NEW i PROVE [list EXCEPT ![i] = m] \in Seq(S \cup {m})
  <2>1. list \in [1 .. Len(list) -> S \cup {m}] /\ Len(list) \in Nat
    BY <1>2
  <2>2. [list EXCEPT ![i] = m] \in [1 .. Len(list) -> S \cup {m}]
    BY <2>1
  <2> QED
    BY <2>1, <2>2
<1>4. Append(list, m) \in Seq(S \cup {m})
  BY <1>2
<1> QED
  BY <1>3, <1>4 DEF IsList, AddMachine

\* What is removed leaves a list.
LEMMA RemoveMachineOf ==
    ASSUME NEW list, IsList(list), NEW id
    PROVE  IsList(RemoveMachine(list, id))
<1> DEFINE I == {i \in DOMAIN list : list[i].id # id}
<1>1. I \in SUBSET Int /\ IsFiniteSet(I)
  <2>1. Len(list) \in Nat /\ I \in SUBSET (1 .. Len(list))
    BY ListShape
  <2> HIDE DEF I
  <2> QED
    BY <2>1, PositionsOf
<1> HIDE DEF I
<1>2. RemoveMachine(list, id) = Sublist(list, I)
  BY DEF RemoveMachine, I
<1> QED
  BY <1>1, <1>2, SublistOf

\* What is renamed, or stored under a name, leaves a list.
LEMMA RenameLocalMachineOf ==
    ASSUME NEW list, IsList(list), NEW m, NEW given, NEW ts
    PROVE  IsList(RenameLocalMachine(list, m, given, ts))
<1> DEFINE named(e) == [e EXCEPT !.name = given, !.ts = ts]
           T == {named(list[i]) : i \in DOMAIN list} \cup {named(m)}
<1>1. PICK S : list \in Seq(S)
  BY DEF IsList
<1>2. named(m) \in T /\ \A i \in DOMAIN list : named(list[i]) \in T
  OBVIOUS
<1> HIDE DEF named, T
<1>3. list \in Seq(S \cup T)
  BY <1>1
<1>4. Append(list, named(m)) \in Seq(S \cup T)
  BY <1>2, <1>3
<1>5. ASSUME NEW i PROVE [list EXCEPT ![i] = named(list[i])] \in Seq(S \cup T)
  <2>1. list \in [1 .. Len(list) -> S \cup T] /\ Len(list) \in Nat
    BY <1>3
  <2>2. [list EXCEPT ![i] = named(list[i])] \in [1 .. Len(list) -> S \cup T]
    BY <1>2, <2>1
  <2> QED
    BY <2>1, <2>2
<1>6. \/ RenameLocalMachine(list, m, given, ts) = Append(list, named(m))
      \/ \E i : RenameLocalMachine(list, m, given, ts) = [list EXCEPT ![i] = named(list[i])]
  BY DEF RenameLocalMachine, named
<1> QED
  BY <1>4, <1>5, <1>6 DEF IsList

\* The members of a finite set, in some order.
LEMMA SetToSeqOf ==
    ASSUME NEW S, IsFiniteSet(S)
    PROVE  IsList(SetToSeq(S))
<1>1. Cardinality(S) \in Nat /\ ExistsBijection(1 .. Cardinality(S), S)
  BY FS_CardinalityType
<1>2. PICK f : f \in Bijection(1 .. Cardinality(S), S)
  BY <1>1 DEF ExistsBijection
<1>3. f \in [1 .. Cardinality(S) -> S] /\ IsInjective(f)
  BY <1>2 DEF Bijection, Injection
<1>4. SetToSeq(S) \in [1 .. Cardinality(S) -> S]
  BY <1>3 DEF SetToSeq
<1> QED
  BY <1>1, <1>4, ListOfDomain

-----------------------------------------------------------------------------
(* Overview, for any machines, names and keys.                             *)
(*                                                                         *)
(* Every step but one that changes the rows or the cursor draws.  The tick *)
(* that finds the rows as they were does not: there the cursor follows the *)
(* name it was on, and stays because it was on a row (Placed) and no other *)
(* row has the name.  The rows were built without what was revoked, and    *)
(* what is retired here was revoked first.                                 *)

Placed ==
    /\ IsList(local) /\ IsList(listing) /\ IsList(rows)
    /\ cursor \in Int
    /\ cursor = Clamp(cursor, Len(rows))

Shows ==
    /\ mode = "list" /\ NamesDiffer => screen.rows = rows /\ screen.cursor = cursor
    /\ retired \subseteq revoked
    /\ ~behind => \A i \in DOMAIN rows : rows[i].id \notin retired

OverviewInv == Placed /\ Shows

\* MoveCursor: what it returns is in place.
LEMMA ClampedOnce ==
    ASSUME NEW c \in Int, NEW n \in Nat
    PROVE  Clamp(c, n) \in Int /\ Clamp(Clamp(c, n), n) = Clamp(c, n)
  BY DEF Clamp

\* A cursor in place is on a row, unless there is none.
LEMMA PlacedOnRow ==
    ASSUME Placed
    PROVE  cursor \in DOMAIN rows \/ (rows = <<>> /\ cursor = 1)
<1>1. Len(rows) \in Nat /\ DOMAIN rows = 1 .. Len(rows)
  BY ListShape DEF Placed
<1>2. PICK S : rows \in Seq(S)
  BY DEF Placed, IsList
<1>3. CASE Len(rows) = 0
  BY <1>2, <1>3 DEF Placed, Clamp
<1>4. CASE Len(rows) # 0
  <2>1. \A n \in Nat \ {0} : \A c \in Int : c = Clamp(c, n) => c \in 1 .. n
    BY DEF Clamp
  <2> QED
    BY <1>1, <1>4, <2>1 DEF Placed
<1> QED
  BY <1>3, <1>4

\* The cursor that follows a name is in place.
LEMMA CursorOnPlaced ==
    ASSUME NEW rs, IsList(rs), NEW c \in Int, NEW given
    PROVE  CursorOn(rs, c, given) \in Int /\ CursorOn(rs, c, given) = Clamp(CursorOn(rs, c, given), Len(rs))
<1>1. Len(rs) \in Nat /\ Named(rs, given) \in SUBSET (1 .. Len(rs))
  BY ListShape DEF Named
<1>2. Named(rs, given) \in SUBSET Nat
  BY <1>1, PositionsOf
<1>3. Named(rs, given) # {} => Least(Named(rs, given)) \in Int
  BY <1>2, LeastOf
<1>4. (IF Named(rs, given) = {} THEN c ELSE Least(Named(rs, given))) \in Int
  BY <1>3
<1> QED
  BY <1>1, <1>4, ClampedOnce DEF CursorOn

\* refresh: the rows are a list, none of them revoked, and the cursor is on one of them.
LEMMA RefreshPlaces ==
    ASSUME Placed, IsList(local'), NEW first, NEW lastUsed, Refresh(first, lastUsed)
    PROVE  /\ IsList(rows') /\ IsList(listing')
           /\ cursor' \in Int /\ cursor' = Clamp(cursor', Len(rows'))
           /\ \A i \in DOMAIN rows' : rows'[i].id \notin revoked'
           /\ behind' = FALSE
<1> DEFINE discovered == FilterRevoked(listing, revoked')
           both == MergeMachines(local', discovered)
           merged == FilterRevoked(both, revoked')
<1>1. IsList(discovered)
  BY ListShape, FilterRevokedOf DEF Placed
<1>2. PICK n \in Nat : DOMAIN both = 1 .. n
  BY <1>1, MergeMachinesOf
<1>3. IsList(merged) /\ \A k \in DOMAIN merged : merged[k].id \notin revoked'
  <2> HIDE DEF both
  <2> QED
    BY <1>2, FilterRevokedOf
<1>4. /\ rows' = Rows(merged, discovered, fresh')
      /\ cursor' = CursorOn(rows', cursor, IF HasRow THEN Selected.name ELSE lastUsed)
      /\ behind' = FALSE /\ listing' = listing
  BY DEF Refresh
<1> HIDE DEF merged, discovered
<1>5. Len(merged) \in Nat /\ DOMAIN merged = 1 .. Len(merged)
  BY <1>3, ListShape
<1>6. DOMAIN rows' = 1 .. Len(merged) /\ \A i \in DOMAIN rows' : rows'[i].id = merged[i].id
  BY <1>4, <1>5 DEF Rows
<1>7. rows' \in [1 .. Len(merged) -> {rows'[i] : i \in 1 .. Len(merged)}]
  BY <1>4, <1>6 DEF Rows
<1>8. IsList(rows')
  BY <1>5, <1>7, ListOfDomain
<1>9. cursor' \in Int /\ cursor' = Clamp(cursor', Len(rows'))
  BY <1>4, <1>8, CursorOnPlaced DEF Placed
<1> QED
  BY <1>3, <1>4, <1>5, <1>6, <1>8, <1>9 DEF Placed

\* rowsEqual: rows that did not change keep the cursor where it is, as long as their names differ.
LEMMA EqualRowsKeepCursor ==
    ASSUME Placed, NamesDiffer, NEW lastUsed
    PROVE  CursorOn(rows, cursor, IF HasRow THEN Selected.name ELSE lastUsed) = cursor
<1>1. CASE cursor \in DOMAIN rows
  <2>1. Named(rows, Selected.name) = {cursor}
    BY <1>1 DEF Named, Selected, NamesDiffer
  <2>2. Least({cursor}) = cursor
    BY DEF Least, Placed
  <2> QED
    BY <1>1, <2>1, <2>2 DEF CursorOn, HasRow, Placed
<1>2. CASE rows = <<>> /\ cursor = 1
  <2>1. DOMAIN rows = {}
    BY <1>2
  <2>2. Named(rows, lastUsed) = {}
    BY <2>1 DEF Named
  <2> QED
    BY <2>1, <2>2 DEF CursorOn, HasRow, Placed
<1> QED
  BY <1>1, <1>2, PlacedOnRow

\* Either the screen was drawn with the rows and the cursor, or the list is not on it, or
\* neither changed.
Pictured ==
    \/ mode' # "list"
    \/ screen'.rows = rows' /\ screen'.cursor = cursor'
    \/ mode = "list" /\ UNCHANGED <<screen, rows, cursor>>

\* A step that leaves the rows as they are.
LEMMA KeepsRows ==
    ASSUME OverviewInv, IsList(local'), IsList(listing'), rows' = rows,
           cursor' \in Int, cursor' = Clamp(cursor', Len(rows)),
           retired' \subseteq revoked', Pictured,
           behind' = TRUE \/ (behind' = behind /\ retired' = retired)
    PROVE  OverviewInv'
  BY DEF OverviewInv, Placed, Shows, Pictured, NamesDiffer

\* A step that draws, or shows no list, and moves nothing.
LEMMA KeepsView ==
    ASSUME OverviewInv, UNCHANGED <<stores, view, retired>>, Pictured
    PROVE  OverviewInv'
<1>1. UNCHANGED <<local, listing, revoked, rows, cursor, behind, retired>>
  BY DEF stores, view
<1> QED
  BY <1>1, KeepsRows DEF OverviewInv, Placed, Shows

\* What is drawn is what there is.
LEMMA DrawPictures ==
    ASSUME Draw
    PROVE  Pictured
  BY DEF Draw, Pictured

\* A step that rebuilds the rows, or could not.
LEMMA RefreshKeeps ==
    ASSUME OverviewInv, IsList(local'), NEW first, NEW lastUsed,
           Refresh(first, lastUsed) \/ RefreshUnread, retired' \subseteq revoked', Pictured
    PROVE  OverviewInv'
<1>1. CASE Refresh(first, lastUsed)
  <2>1. Placed
    BY DEF OverviewInv
  <2>2. /\ IsList(rows') /\ IsList(listing') /\ behind' = FALSE
        /\ cursor' \in Int /\ cursor' = Clamp(cursor', Len(rows'))
        /\ \A i \in DOMAIN rows' : rows'[i].id \notin revoked'
    BY <1>1, <2>1, RefreshPlaces
  <2> QED
    BY <2>2 DEF OverviewInv, Placed, Shows, Pictured, NamesDiffer
<1>2. CASE RefreshUnread
  <2>1. UNCHANGED <<rows, cursor, listing>> /\ behind' = TRUE
    BY <1>2 DEF RefreshUnread
  <2> QED
    BY <2>1, KeepsRows DEF OverviewInv, Placed
<1> QED
  BY <1>1, <1>2

\* A change from outside leaves the overview alone.
LEMMA OutsideKeeps ==
    ASSUME OverviewInv, Outside, IsList(local'), IsList(listing'), revoked \subseteq revoked'
    PROVE  OverviewInv'
<1>1. UNCHANGED <<rows, cursor, behind, retired, screen, mode>>
  BY DEF Outside, view, terminal
<1> QED
  BY <1>1, KeepsRows DEF OverviewInv, Placed, Shows, Pictured

\* A key keeps the invariant.
LEMMA KeyStep ==
    ASSUME OverviewInv, NEW ev,
           \/ Quit(ev) \/ Move(ev) \/ Idle(ev) \/ Ask(ev) \/ Attach(ev)
           \/ Type(ev) \/ Swallow(ev) \/ Cancel(ev) \/ NothingDone(ev)
           \/ \E ok \in BOOLEAN : FinishRename(ev, ok) \/ FinishRetire(ev, ok)
    PROVE  OverviewInv'
<1>1. CASE Quit(ev)
  BY <1>1, KeepsView DEF Quit, Pictured, ghosts
<1>2. CASE Move(ev)
  <2>1. Len(rows) \in Nat /\ cursor \in Int
    BY ListShape DEF OverviewInv, Placed
  <2>2. cursor' \in Int /\ cursor' = Clamp(cursor', Len(rows))
    <3>1. (IF ev.key = "up" THEN cursor - 1 ELSE cursor + 1) \in Int
      BY <2>1
    <3> QED
      BY <1>2, <2>1, <3>1, ClampedOnce DEF Move
  <2>3. UNCHANGED <<local, listing, revoked, rows, behind, retired>> /\ Draw
    BY <1>2 DEF Move, stores, ghosts
  <2> QED
    BY <2>2, <2>3, KeepsRows, DrawPictures DEF OverviewInv, Placed, Shows
<1>3. CASE Idle(ev)
  BY <1>3, KeepsView, DrawPictures DEF Idle, ghosts
<1>4. CASE Ask(ev)
  BY <1>4, KeepsView, DrawPictures DEF Ask
<1>5. CASE Attach(ev)
  BY <1>5, KeepsView DEF Attach, Pictured, ghosts
<1>6. CASE Type(ev)
  BY <1>6, KeepsView, DrawPictures DEF Type, ghosts
<1>7. CASE Swallow(ev)
  BY <1>7, KeepsView, DrawPictures DEF Swallow, ghosts
<1>8. CASE Cancel(ev)
  BY <1>8, KeepsView, DrawPictures DEF Cancel, ghosts
<1>9. CASE NothingDone(ev)
  BY <1>9, KeepsView, DrawPictures DEF NothingDone, ghosts
<1>10. ASSUME NEW ok \in BOOLEAN, FinishRename(ev, ok) PROVE OverviewInv'
  <2>1. IsList(local')
    BY <1>10, RenameLocalMachineOf DEF FinishRename, OverviewInv, Placed
  <2>2. UNCHANGED <<revoked, retired>> /\ Pictured
    BY <1>10, DrawPictures DEF FinishRename
  <2>3. CASE Refresh(FALSE, None) \/ RefreshUnread
    BY <2>1, <2>2, <2>3, RefreshKeeps DEF OverviewInv, Shows
  <2>4. CASE UNCHANGED <<view, seen, listing>>
    BY <2>1, <2>2, <2>4, KeepsRows DEF OverviewInv, Placed, Shows, view
  <2> QED
    BY <1>10, <2>3, <2>4 DEF FinishRename
<1>11. ASSUME NEW ok \in BOOLEAN, FinishRetire(ev, ok) PROVE OverviewInv'
  <2>1. local' = local /\ retired' \subseteq revoked' /\ Pictured
    BY <1>11, DrawPictures DEF FinishRetire, OverviewInv, Shows
  <2>2. CASE Refresh(FALSE, None) \/ RefreshUnread
    BY <2>1, <2>2, RefreshKeeps DEF OverviewInv, Placed
  <2>3. CASE ~ok /\ UNCHANGED <<view, seen, listing>>
    <3>1. retired' = retired
      BY <1>11, <2>3 DEF FinishRetire
    <3> QED
      BY <2>1, <2>3, <3>1, KeepsRows DEF OverviewInv, Placed, view
  <2> QED
    BY <1>11, <2>2, <2>3 DEF FinishRetire
<1> QED
  BY <1>1, <1>2, <1>3, <1>4, <1>5, <1>6, <1>7, <1>8, <1>9, <1>10, <1>11

\* Every step keeps the invariant.
LEMMA OverviewStep ==
    ASSUME OverviewInv, [OverviewNext]_overviewVars
    PROVE  OverviewInv'
<1>1. CASE Open
  <2>1. UNCHANGED <<local, revoked, retired>> /\ Pictured
    BY <1>1, DrawPictures DEF Open, ghosts
  <2>2. \E lastUsed : Refresh(TRUE, lastUsed) \/ RefreshUnread
    BY <1>1 DEF Open
  <2> QED
    BY <2>1, <2>2, RefreshKeeps DEF OverviewInv, Placed, Shows
<1>2. CASE Tick
  <2>1. UNCHANGED <<local, revoked, retired, mode>> /\ mode = "list"
    BY <1>2 DEF Tick, ghosts, terminal
  <2>2. CASE Draw
    BY <1>2, <2>1, <2>2, DrawPictures, RefreshKeeps DEF Tick, OverviewInv, Placed, Shows
  <2>3. CASE Refresh(FALSE, None) /\ rows' = rows /\ UNCHANGED screen
    <3>1. Placed
      BY DEF OverviewInv
    <3>2. /\ IsList(listing') /\ behind' = FALSE
          /\ cursor' \in Int /\ cursor' = Clamp(cursor', Len(rows'))
          /\ \A i \in DOMAIN rows' : rows'[i].id \notin revoked'
      BY <2>1, <2>3, <3>1, RefreshPlaces DEF Placed
    <3>3. cursor' = CursorOn(rows, cursor, IF HasRow THEN Selected.name ELSE None)
      BY <2>3 DEF Refresh
    <3>4. NamesDiffer => cursor' = cursor
      BY <3>1, <3>3, EqualRowsKeepCursor
    <3> QED
      BY <2>1, <2>3, <3>2, <3>4 DEF OverviewInv, Placed, Shows, NamesDiffer
  <2> QED
    BY <1>2, <2>2, <2>3 DEF Tick, RowsEqual
<1>3. CASE Redraw
  BY <1>3, KeepsView, DrawPictures DEF Redraw, ghosts
<1>4. CASE Interrupted
  BY <1>4, KeepsView DEF Interrupted, Pictured, ghosts
<1>5. ASSUME NEW b \in Bytes, Key(b) PROVE OverviewInv'
  <2> DEFINE ev == Feed(esc, b)
  <2>1. \/ Quit(ev) \/ Move(ev) \/ Idle(ev) \/ Ask(ev) \/ Attach(ev)
        \/ Type(ev) \/ Swallow(ev) \/ Cancel(ev) \/ NothingDone(ev)
        \/ \E ok \in BOOLEAN : FinishRename(ev, ok) \/ FinishRetire(ev, ok)
    BY <1>5 DEF Key
  <2> HIDE DEF ev
  <2> QED
    BY <2>1, KeyStep
<1>6. ASSUME Return PROVE OverviewInv'
  BY <1>6, KeepsView, DrawPictures DEF Return, ghosts
<1>7. ASSUME NEW b \in Bytes, Through(b) \/ Stolen(b) PROVE OverviewInv'
  BY <1>7, KeepsView DEF Through, Stolen, Pictured, view, ghosts
<1>8. CASE Dropped
  <2>1. CASE Return
    BY <1>6, <2>1
  <2>2. CASE UNCHANGED <<stores, view, prompt, mode, target, armed, screen, ghosts>>
    BY <1>8, <2>2, KeepsView DEF Dropped, Pictured, ghosts
  <2> QED
    BY <1>8, <2>1, <2>2 DEF Dropped
<1>9. CASE Relisted
  <2>1. PICK S \in SUBSET (Ids \ Shares), front \in Ids :
           LET names(id) == IF At(listing, id) # {} THEN listing[Least(At(listing, id))] ELSE Record(id)
               rest == SetToSeq({names(id) : id \in S \ {front}})
           IN listing' = IF front \in S THEN <<names(front)>> \o rest ELSE rest
    BY <1>9 DEF Relisted
  <2> DEFINE names(id) == IF At(listing, id) # {} THEN listing[Least(At(listing, id))] ELSE Record(id)
             rest == SetToSeq({names(id) : id \in S \ {front}})
  <2>2. listing' = IF front \in S THEN <<names(front)>> \o rest ELSE rest
    BY <2>1
  <2>3. IsFiniteSet(S \ {front})
    BY OverviewAssumption, FS_Subset
  <2> HIDE DEF names
  <2>4. IsFiniteSet({names(id) : id \in S \ {front}})
    <3> DEFINE f == [id \in S \ {front} |-> names(id)]
    <3>1. f \in Surjection(S \ {front}, {names(id) : id \in S \ {front}})
      BY DEF Surjection
    <3> HIDE DEF f
    <3> QED
      BY <2>3, <3>1, FS_Surjection
  <2>5. IsList(rest)
    BY <2>4, SetToSeqOf
  <2> HIDE DEF rest
  <2>6. IsList(<<names(front)>> \o rest)
    <3>1. PICK T : rest \in Seq(T)
      BY <2>5 DEF IsList
    <3>2. rest \in Seq(T \cup {names(front)}) /\ <<names(front)>> \in Seq(T \cup {names(front)})
      BY <3>1
    <3>3. <<names(front)>> \o rest \in Seq(T \cup {names(front)})
      BY <3>2
    <3> QED
      BY <3>3 DEF IsList
  <2>7. IsList(listing')
    BY <2>2, <2>5, <2>6
  <2> QED
    BY <1>9, <2>7, OutsideKeeps DEF Relisted, OverviewInv, Placed
<1>10. CASE RevokedElsewhere
  BY <1>10, OutsideKeeps DEF RevokedElsewhere, OverviewInv, Placed
<1>11. CASE PairedElsewhere
  BY <1>11, OutsideKeeps, AddMachineOf DEF PairedElsewhere, OverviewInv, Placed
<1>12. CASE ShareSwept
  BY <1>12, OutsideKeeps, RemoveMachineOf DEF ShareSwept, OverviewInv, Placed
<1>13. CASE RenamedElsewhere
  <2>1. PICK i \in DOMAIN listing :
           listing' = [listing EXCEPT ![i].name = <<"n">>, ![i].ts = changes + 1]
    BY <1>13 DEF RenamedElsewhere
  <2>2. PICK T : listing \in Seq(T)
    BY DEF OverviewInv, Placed, IsList
  <2>3. listing \in [1 .. Len(listing) -> T] /\ Len(listing) \in Nat
    BY <2>2
  <2> DEFINE m == listing'[i]
  <2>4. listing' \in [1 .. Len(listing) -> T \cup {m}]
    BY <2>1, <2>3
  <2>5. IsList(listing')
    BY <2>3, <2>4, ListOfDomain
  <2> QED
    BY <1>13, <2>5, OutsideKeeps DEF RenamedElsewhere, OverviewInv, Placed
<1>14. CASE UNCHANGED overviewVars
  BY <1>14, KeepsView DEF overviewVars, terminal, view, ghosts, Pictured
<1> QED
  BY <1>1, <1>2, <1>3, <1>4, <1>5, <1>6, <1>7, <1>8, <1>9, <1>10, <1>11, <1>12, <1>13, <1>14
  DEF OverviewNext, Detach

\* overview.go: although a tick that finds the same rows draws nothing, the row the screen
\* highlights is the machine that Enter, rename and retire act on, whatever is renamed, listed
\* again or revoked meanwhile; and a machine retired here is gone from the rows that could be read.
THEOREM HighlightStaysTrue == OverviewSpec => []HighlightTrue
<1>1. OverviewInit => OverviewInv
  <2> SUFFICES ASSUME OverviewInit PROVE OverviewInv
    OBVIOUS
  <2>1. IsList(local)
    <3>1. Len(Stored0) \in Nat /\ DOMAIN Stored0 = 1 .. Len(Stored0)
      BY OverviewAssumption
    <3>2. local \in [1 .. Len(Stored0) -> {Record(Stored0[i]) : i \in 1 .. Len(Stored0)}]
      BY <3>1 DEF OverviewInit
    <3> QED
      BY <3>1, <3>2, ListOfDomain
  <2>2. IsList(listing)
    <3>1. IsFiniteSet(Ids \ Shares)
      BY OverviewAssumption, FS_Subset
    <3>2. IsFiniteSet({Record(id) : id \in Ids \ Shares})
      <4> DEFINE f == [id \in Ids \ Shares |-> Record(id)]
      <4>1. f \in Surjection(Ids \ Shares, {Record(id) : id \in Ids \ Shares})
        BY DEF Surjection
      <4> HIDE DEF f
      <4> QED
        BY <3>1, <4>1, FS_Surjection
    <3> QED
      BY <3>2, SetToSeqOf DEF OverviewInit
  <2>3. rows = <<>> /\ cursor = 1 /\ IsList(rows)
    <3>1. <<>> \in Seq({})
      OBVIOUS
    <3> QED
      BY <3>1 DEF OverviewInit, IsList
  <2>4. Clamp(1, Len(<<>>)) = 1
    BY DEF Clamp
  <2> QED
    BY <2>1, <2>2, <2>3, <2>4 DEF OverviewInit, OverviewInv, Placed, Shows
<1>2. OverviewInv /\ [OverviewNext]_overviewVars => OverviewInv'
  BY OverviewStep
<1>3. OverviewInv => HighlightTrue
  BY DEF OverviewInv, Shows, HighlightTrue
<1> QED
  BY <1>1, <1>2, <1>3, PTL DEF OverviewSpec

-----------------------------------------------------------------------------
(* MachineNames, for any number of devices, renames, connections and       *)
(* restarts.                                                               *)
(*                                                                         *)
(* As long as no two rewrites of config.json overlapped, whoever has read  *)
(* it has read what it still says (Rewriting).  A rename that was          *)
(* acknowledged and that no other followed is in the file from before the  *)
(* ack; a connection made later opens with it, and what another device's   *)
(* handler still has to publish is for an earlier one (Publishing).        *)

WriterRecords ==
    [at : {"idle", "sealed", "read", "looked_up", "republish", "acking", "loading", "loaded"},
     read : Configs \cup {Nothing}, record : NameRecords \cup {Nothing}, link : Nat]

NamesShape ==
    /\ config \in Configs
    /\ writer \in [Writers -> WriterRecords]
    /\ stored \in [Devices -> NameRecords]
    /\ told \in [Devices -> {"none", "local", "renamed"}]
    /\ renames \in [Devices -> 0 .. MaxRenames]
    /\ agent \in {"up", "down", "starting"}
    /\ link \in Nat /\ links \in Nat /\ clock \in 0 .. MaxClock
    /\ ackedOn \in [Devices -> Nat]
    /\ paired \in BOOLEAN /\ overlapped \in BOOLEAN

Rewriting ==
    /\ \A w \in Writers : writer[w].at \in {"read", "loading"} <=> writer[w].read # Nothing
    /\ agent = "starting" => writer["up"].at = "read"
    /\ ~overlapped =>
          /\ \A w \in Writers : writer[w].read # Nothing => writer[w].read = config
          /\ paired => config.paired
          /\ config.record = applied

\* A name says who gave it, and is not given twice.
Sealing ==
    \A d \in Devices :
        /\ stored[d].name = <<"host", 0>> \/ (stored[d].name = <<d, renames[d]>> /\ renames[d] >= 1)
        /\ writer[d].at \in {"sealed", "read"} =>
              writer[d].record = stored[d] /\ renames[d] >= 1 /\ stored[d].name = <<d, renames[d]>>
        /\ writer[d].at # "idle" => told[d] # "renamed"

Connecting ==
    /\ link <= links
    /\ \A d \in Devices : writer[d].link <= links /\ ackedOn[d] <= links

Publishing ==
    \A d \in Devices :
        told[d] = "renamed" /\ applied = stored[d] /\ ~overlapped =>
            /\ \A e \in Devices :
                  writer[e].at \in {"looked_up", "republish"} => writer[e].link <= ackedOn[d]
            /\ link > ackedOn[d] =>
                  /\ opening.at = "publish" => opening.record = applied
                  /\ opening.at = "done" => listed = applied

NamesInv == NamesShape /\ Rewriting /\ Sealing /\ Connecting /\ Publishing

\* Every step keeps the file, its writers and the records of their kinds.
LEMMA NamesShapeStep ==
    ASSUME NamesShape, Rewriting, Sealing, [NamesNext]_namesVars
    PROVE  NamesShape'
<1> USE DEF NamesShape
<1>w. /\ Devices \subseteq Writers /\ "pair" \in Writers /\ "up" \in Writers /\ Writers = Devices \cup {"pair", "up"}
      /\ "pair" \notin Devices /\ "up" \notin Devices
  BY NamesAssumption DEF Writers
<1>r. Nothing \notin NameRecords /\ Nothing \notin Configs
  BY NamesAssumption
<1>i. IdleWriter \in WriterRecords /\ "idle" = IdleWriter.at
  BY DEF IdleWriter, WriterRecords
<1>s. \A w \in Writers : writer[w] \in WriterRecords
  OBVIOUS
<1>1. ASSUME NEW x \in Devices, Seal(x) PROVE NamesShape'
  <2> DEFINE rec == [name |-> <<x, renames[x] + 1>>, ts |-> clock]
  <2>1. renames[x] + 1 \in 1 .. MaxRenames
    BY <1>1, NamesAssumption DEF Seal
  <2>2. rec \in NameRecords
    BY <2>1 DEF NameRecords, NamesGiven
  <2>3. [IdleWriter EXCEPT !.at = "sealed", !.record = rec] \in WriterRecords
    BY <2>2 DEF IdleWriter, WriterRecords
  <2>4. writer' = [writer EXCEPT ![x] = [IdleWriter EXCEPT !.at = "sealed", !.record = rec]]
    BY <1>1 DEF Seal
  <2>5. writer' \in [Writers -> WriterRecords]
    BY <2>3, <2>4, <1>w
  <2>6. stored' \in [Devices -> NameRecords]
    BY <1>1, <2>2 DEF Seal
  <2>7. renames' \in [Devices -> 0 .. MaxRenames]
    BY <1>1, <2>1, NamesAssumption DEF Seal
  <2> QED
    BY <1>1, <2>5, <2>6, <2>7 DEF Seal
<1>2. ASSUME NEW x \in Devices, GivesUp(x) PROVE NamesShape'
  <2>1. writer' \in [Writers -> WriterRecords]
    BY <1>2, <1>i, <1>w DEF GivesUp
  <2> QED
    BY <1>2, <2>1 DEF GivesUp
<1>3. ASSUME NEW x \in Devices, HandlerReads(x) PROVE NamesShape'
  <2>2. [writer[x] EXCEPT !.at = "read", !.read = config] \in WriterRecords
    BY <1>3, <1>w, <1>i, <1>s DEF HandlerReads, WriterRecords, ReadConfig
  <2>3. writer' = [writer EXCEPT ![x] = [writer[x] EXCEPT !.at = "read", !.read = config]]
    BY <1>3, <1>w DEF HandlerReads, ReadConfig
  <2>4. writer' \in [Writers -> WriterRecords]
    BY <2>2, <2>3, <1>w
  <2> QED
    BY <1>3, <2>4 DEF HandlerReads, ReadConfig
<1>4. ASSUME NEW x \in Devices, HandlerWrites(x) PROVE NamesShape'
  <2>1. [writer[x].read EXCEPT !.name = writer[x].record.name, !.record = writer[x].record] \in Configs
    <3>1. writer[x].read \in Configs
      BY <1>4, <1>s, <1>w DEF HandlerWrites, WriterRecords, Rewriting
    <3>2. writer[x].record \in NameRecords
      BY <1>4 DEF HandlerWrites, Sealing
    <3> QED
      BY <3>1, <3>2 DEF Configs, NameRecords
  <2>2. [writer[x] EXCEPT !.at = IF link = 0 THEN "acking" ELSE "looked_up", !.read = Nothing, !.link = link] \in WriterRecords
    BY <1>4, <1>w, <1>i, <1>s DEF HandlerWrites, WriterRecords
  <2>3. writer' = [writer EXCEPT ![x] = [writer[x] EXCEPT !.at = IF link = 0 THEN "acking" ELSE "looked_up", !.read = Nothing, !.link = link]]
    BY <1>4, <1>w DEF HandlerWrites
  <2>4. writer' \in [Writers -> WriterRecords]
    BY <2>2, <2>3, <1>w
  <2> QED
    BY <1>4, <2>4, <2>1 DEF HandlerWrites, Replace
<1>5. ASSUME NEW x \in Devices, HandlerFails(x) PROVE NamesShape'
  <2>2. IdleWriter \in WriterRecords
    BY <1>5, <1>w, <1>i, <1>s DEF HandlerFails, WriterRecords, IdleWriter
  <2>3. writer' = [writer EXCEPT ![x] = IdleWriter]
    BY <1>5, <1>w DEF HandlerFails, IdleWriter
  <2>4. writer' \in [Writers -> WriterRecords]
    BY <2>2, <2>3, <1>w
  <2> QED
    BY <1>5, <2>4 DEF HandlerFails
<1>6. ASSUME NEW x \in Devices, RepublishReads(x) PROVE NamesShape'
  <2>0. config.record \in NameRecords
    BY DEF Configs
  <2>2. [writer[x] EXCEPT !.at = "republish", !.record = config.record] \in WriterRecords
    BY <1>6, <1>w, <1>i, <1>s, <2>0 DEF RepublishReads, WriterRecords
  <2>3. writer' = [writer EXCEPT ![x] = [writer[x] EXCEPT !.at = "republish", !.record = config.record]]
    BY <1>6, <1>w DEF RepublishReads
  <2>4. writer' \in [Writers -> WriterRecords]
    BY <2>2, <2>3, <1>w
  <2> QED
    BY <1>6, <2>4 DEF RepublishReads
<1>7. ASSUME NEW x \in Devices, Republishes(x) PROVE NamesShape'
  <2>2. [writer[x] EXCEPT !.at = "acking"] \in WriterRecords
    BY <1>7, <1>w, <1>i, <1>s DEF Republishes, WriterRecords
  <2>3. writer' = [writer EXCEPT ![x] = [writer[x] EXCEPT !.at = "acking"]]
    BY <1>7, <1>w DEF Republishes
  <2>4. writer' \in [Writers -> WriterRecords]
    BY <2>2, <2>3, <1>w
  <2> QED
    BY <1>7, <2>4 DEF Republishes
<1>8. ASSUME NEW x \in Devices, Acks(x) PROVE NamesShape'
  <2>2. IdleWriter \in WriterRecords
    BY <1>8, <1>w, <1>i, <1>s DEF Acks, WriterRecords, IdleWriter
  <2>3. writer' = [writer EXCEPT ![x] = IdleWriter]
    BY <1>8, <1>w DEF Acks, IdleWriter
  <2>4. writer' \in [Writers -> WriterRecords]
    BY <2>2, <2>3, <1>w
  <2> QED
    BY <1>8, <2>4 DEF Acks
<1>9. ASSUME Connects PROVE NamesShape'
  BY <1>9, <1>w DEF Connects
<1>10. ASSUME ServeReads PROVE NamesShape'
  BY <1>10, <1>w DEF ServeReads
<1>11. ASSUME ServePublishes PROVE NamesShape'
  BY <1>11, <1>w DEF ServePublishes
<1>12. ASSUME Disconnects PROVE NamesShape'
  BY <1>12, <1>w DEF Disconnects, Hangup
<1>13. ASSUME PairBegins PROVE NamesShape'
  <2>2. [writer["pair"] EXCEPT !.at = "loading", !.read = config] \in WriterRecords
    BY <1>13, <1>w, <1>i, <1>s DEF PairBegins, WriterRecords
  <2>3. writer' = [writer EXCEPT !["pair"] = [writer["pair"] EXCEPT !.at = "loading", !.read = config]]
    BY <1>13, <1>w DEF PairBegins
  <2>4. writer' \in [Writers -> WriterRecords]
    BY <2>2, <2>3, <1>w
  <2> QED
    BY <1>13, <2>4 DEF PairBegins
<1>14. ASSUME PairLoads PROVE NamesShape'
  <2>1. [writer["pair"].read EXCEPT !.name = <<"host", 0>>] \in Configs
    <3>1. writer["pair"].read \in Configs
      BY <1>14, <1>s, <1>w DEF PairLoads, WriterRecords, Rewriting
    <3> QED
      BY <3>1 DEF Configs, NamesGiven
  <2>2. [IdleWriter EXCEPT !.at = "loaded"] \in WriterRecords
    BY <1>14, <1>w, <1>i, <1>s DEF PairLoads, WriterRecords, IdleWriter
  <2>3. writer' = [writer EXCEPT !["pair"] = [IdleWriter EXCEPT !.at = "loaded"]]
    BY <1>14, <1>w DEF PairLoads, IdleWriter
  <2>4. writer' \in [Writers -> WriterRecords]
    BY <2>2, <2>3, <1>w
  <2> QED
    BY <1>14, <2>4, <2>1 DEF PairLoads, Replace
<1>15. ASSUME PairReads PROVE NamesShape'
  <2>2. [writer["pair"] EXCEPT !.at = "read", !.read = config] \in WriterRecords
    BY <1>15, <1>w, <1>i, <1>s DEF PairReads, WriterRecords, ReadConfig
  <2>3. writer' = [writer EXCEPT !["pair"] = [writer["pair"] EXCEPT !.at = "read", !.read = config]]
    BY <1>15, <1>w DEF PairReads, ReadConfig
  <2>4. writer' \in [Writers -> WriterRecords]
    BY <2>2, <2>3, <1>w
  <2> QED
    BY <1>15, <2>4 DEF PairReads, ReadConfig
<1>16. ASSUME PairWrites PROVE NamesShape'
  <2>1. [writer["pair"].read EXCEPT !.paired = TRUE] \in Configs
    <3>1. writer["pair"].read \in Configs
      BY <1>16, <1>s, <1>w DEF PairWrites, WriterRecords, Rewriting
    <3> QED
      BY <3>1 DEF Configs, NamesGiven
  <2>2. IdleWriter \in WriterRecords
    BY <1>16, <1>w, <1>i, <1>s DEF PairWrites, WriterRecords, IdleWriter
  <2>3. writer' = [writer EXCEPT !["pair"] = IdleWriter]
    BY <1>16, <1>w DEF PairWrites, IdleWriter
  <2>4. writer' \in [Writers -> WriterRecords]
    BY <2>2, <2>3, <1>w
  <2> QED
    BY <1>16, <2>4, <2>1 DEF PairWrites, Replace
<1>17. ASSUME Stops PROVE NamesShape'
  <2>1. writer' \in [Writers -> WriterRecords]
    BY <1>17, <1>i, <1>s DEF Stops
  <2>2. told' \in [Devices -> {"none", "local", "renamed"}]
    BY <1>17 DEF Stops
  <2> QED
    BY <1>17, <2>1, <2>2 DEF Stops, Hangup
<1>18. ASSUME StartReads PROVE NamesShape'
  <2>2. [writer["up"] EXCEPT !.at = "read", !.read = config] \in WriterRecords
    BY <1>18, <1>w, <1>i, <1>s DEF StartReads, WriterRecords, ReadConfig
  <2>3. writer' = [writer EXCEPT !["up"] = [writer["up"] EXCEPT !.at = "read", !.read = config]]
    BY <1>18, <1>w DEF StartReads, ReadConfig
  <2>4. writer' \in [Writers -> WriterRecords]
    BY <2>2, <2>3, <1>w
  <2> QED
    BY <1>18, <2>4 DEF StartReads, ReadConfig
<1>19. ASSUME StartWrites PROVE NamesShape'
  <2>1. [writer["up"].read EXCEPT !.name = <<"host", 0>>] \in Configs
    <3>1. writer["up"].read \in Configs
      BY <1>19, <1>s, <1>w DEF StartWrites, WriterRecords, Rewriting
    <3> QED
      BY <3>1 DEF Configs, NamesGiven
  <2>2. IdleWriter \in WriterRecords
    BY <1>19, <1>w, <1>i, <1>s DEF StartWrites, WriterRecords, IdleWriter
  <2>3. writer' = [writer EXCEPT !["up"] = IdleWriter]
    BY <1>19, <1>w DEF StartWrites, IdleWriter
  <2>4. writer' \in [Writers -> WriterRecords]
    BY <2>2, <2>3, <1>w
  <2> QED
    BY <1>19, <2>4, <2>1 DEF StartWrites, Replace
<1>20. ASSUME Second PROVE NamesShape'
  <2>1. clock' \in 0 .. MaxClock
    BY <1>20, NamesAssumption DEF Second
  <2> QED
    BY <1>20, <2>1 DEF Second
<1>21. CASE UNCHANGED namesVars
  BY <1>21 DEF namesVars
<1> QED
  BY <1>1, <1>2, <1>3, <1>4, <1>5, <1>6, <1>7, <1>8, <1>9, <1>10, <1>11, <1>12, <1>13, <1>14, <1>15,
     <1>16, <1>17, <1>18, <1>19, <1>20, <1>21 DEF NamesNext

\* A rewrite that overlaps with none was made from what the file said, and nobody else holds
\* what it said before.
LEMMA RewritingStep ==
    ASSUME NamesShape, Rewriting, [NamesNext]_namesVars
    PROVE  Rewriting'
<1> USE DEF NamesShape, Rewriting
<1>w. /\ Devices \subseteq Writers /\ "pair" \in Writers /\ "up" \in Writers /\ Writers = Devices \cup {"pair", "up"}
      /\ "pair" \notin Devices /\ "up" \notin Devices
  BY NamesAssumption DEF Writers
<1>r. Nothing \notin NameRecords /\ Nothing \notin Configs
  BY NamesAssumption
<1>1. ASSUME NEW x \in Devices, Seal(x) PROVE Rewriting'
  BY <1>1, <1>w, <1>r DEF Seal, IdleWriter
<1>2. ASSUME NEW x \in Devices, GivesUp(x) PROVE Rewriting'
  BY <1>2, <1>w, <1>r DEF GivesUp, IdleWriter
<1>3. ASSUME NEW x \in Devices, HandlerReads(x) PROVE Rewriting'
  BY <1>3, <1>w, <1>r DEF HandlerReads, ReadConfig
<1>4. ASSUME NEW x \in Devices, HandlerWrites(x) PROVE Rewriting'
  <2>1. x \in Writers /\ writer[x].read # Nothing /\ writer[x] \in WriterRecords
    BY <1>4, <1>w DEF HandlerWrites
  <2>2. writer[x].read \in Configs
    BY <2>1 DEF WriterRecords
  <2>3. /\ config' = [writer[x].read EXCEPT !.name = writer[x].record.name, !.record = writer[x].record]
        /\ overlapped' = (overlapped \/ \E v \in Writers \ {x} : writer[v].read # Nothing)
    BY <1>4 DEF HandlerWrites, Replace
  <2>4. writer'[x].at \notin {"read", "loading"} /\ writer'[x].read = Nothing
    BY <1>4, <2>1 DEF HandlerWrites, IdleWriter, WriterRecords
  <2>5. \A v \in Writers : v # x => writer'[v] = writer[v]
    BY <1>4 DEF HandlerWrites
  <2>6. ~overlapped' => \A v \in Writers : writer'[v].read = Nothing
    BY <2>3, <2>4, <2>5
  <2>7. ~overlapped' => writer[x].read = config
    BY <2>1, <2>3
  <2>8. ~overlapped' => (paired' => config'.paired) /\ config'.record = applied'
    BY <1>4, <2>2, <2>3, <2>7 DEF HandlerWrites, Configs
  <2>9. agent' = "starting" => writer'["up"].at = "read"
    BY <1>4, <2>5, <1>w DEF HandlerWrites
  <2> QED
    BY <2>4, <2>5, <2>6, <2>8, <2>9
<1>5. ASSUME NEW x \in Devices, HandlerFails(x) PROVE Rewriting'
  BY <1>5, <1>w, <1>r DEF HandlerFails, IdleWriter
<1>6. ASSUME NEW x \in Devices, RepublishReads(x) PROVE Rewriting'
  BY <1>6, <1>w, <1>r DEF RepublishReads
<1>7. ASSUME NEW x \in Devices, Republishes(x) PROVE Rewriting'
  BY <1>7, <1>w, <1>r DEF Republishes
<1>8. ASSUME NEW x \in Devices, Acks(x) PROVE Rewriting'
  BY <1>8, <1>w, <1>r DEF Acks, IdleWriter
<1>9. ASSUME Connects PROVE Rewriting'
  BY <1>9, <1>w, <1>r DEF Connects
<1>10. ASSUME ServeReads PROVE Rewriting'
  BY <1>10, <1>w, <1>r DEF ServeReads
<1>11. ASSUME ServePublishes PROVE Rewriting'
  BY <1>11, <1>w, <1>r DEF ServePublishes
<1>12. ASSUME Disconnects PROVE Rewriting'
  BY <1>12, <1>w, <1>r DEF Disconnects, Hangup
<1>13. ASSUME PairBegins PROVE Rewriting'
  BY <1>13, <1>w, <1>r DEF PairBegins
<1>14. ASSUME PairLoads PROVE Rewriting'
  <2>1. "pair" \in Writers /\ writer["pair"].read # Nothing /\ writer["pair"] \in WriterRecords
    BY <1>14, <1>w DEF PairLoads
  <2>2. writer["pair"].read \in Configs
    BY <2>1 DEF WriterRecords
  <2>3. /\ config' = [writer["pair"].read EXCEPT !.name = <<"host", 0>>]
        /\ overlapped' = (overlapped \/ \E v \in Writers \ {"pair"} : writer[v].read # Nothing)
    BY <1>14 DEF PairLoads, Replace
  <2>4. writer'["pair"].at \notin {"read", "loading"} /\ writer'["pair"].read = Nothing
    BY <1>14, <2>1 DEF PairLoads, IdleWriter, WriterRecords
  <2>5. \A v \in Writers : v # "pair" => writer'[v] = writer[v]
    BY <1>14 DEF PairLoads
  <2>6. ~overlapped' => \A v \in Writers : writer'[v].read = Nothing
    BY <2>3, <2>4, <2>5
  <2>7. ~overlapped' => writer["pair"].read = config
    BY <2>1, <2>3
  <2>8. ~overlapped' => (paired' => config'.paired) /\ config'.record = applied'
    BY <1>14, <2>2, <2>3, <2>7 DEF PairLoads, Configs
  <2>9. agent' = "starting" => writer'["up"].at = "read"
    BY <1>14, <2>5, <1>w DEF PairLoads
  <2> QED
    BY <2>4, <2>5, <2>6, <2>8, <2>9
<1>15. ASSUME PairReads PROVE Rewriting'
  BY <1>15, <1>w, <1>r DEF PairReads, ReadConfig
<1>16. ASSUME PairWrites PROVE Rewriting'
  <2>1. "pair" \in Writers /\ writer["pair"].read # Nothing /\ writer["pair"] \in WriterRecords
    BY <1>16, <1>w DEF PairWrites
  <2>2. writer["pair"].read \in Configs
    BY <2>1 DEF WriterRecords
  <2>3. /\ config' = [writer["pair"].read EXCEPT !.paired = TRUE]
        /\ overlapped' = (overlapped \/ \E v \in Writers \ {"pair"} : writer[v].read # Nothing)
    BY <1>16 DEF PairWrites, Replace
  <2>4. writer'["pair"].at \notin {"read", "loading"} /\ writer'["pair"].read = Nothing
    BY <1>16, <2>1 DEF PairWrites, IdleWriter, WriterRecords
  <2>5. \A v \in Writers : v # "pair" => writer'[v] = writer[v]
    BY <1>16 DEF PairWrites
  <2>6. ~overlapped' => \A v \in Writers : writer'[v].read = Nothing
    BY <2>3, <2>4, <2>5
  <2>7. ~overlapped' => writer["pair"].read = config
    BY <2>1, <2>3
  <2>8. ~overlapped' => (paired' => config'.paired) /\ config'.record = applied'
    BY <1>16, <2>2, <2>3, <2>7 DEF PairWrites, Configs
  <2>9. agent' = "starting" => writer'["up"].at = "read"
    BY <1>16, <2>5, <1>w DEF PairWrites
  <2> QED
    BY <2>4, <2>5, <2>6, <2>8, <2>9
<1>17. ASSUME Stops PROVE Rewriting'
  BY <1>17, <1>w, <1>r DEF Stops, Hangup, IdleWriter
<1>18. ASSUME StartReads PROVE Rewriting'
  BY <1>18, <1>w, <1>r DEF StartReads, ReadConfig
<1>19. ASSUME StartWrites PROVE Rewriting'
  <2>1. "up" \in Writers /\ writer["up"].read # Nothing /\ writer["up"] \in WriterRecords
    BY <1>19, <1>w DEF StartWrites
  <2>2. writer["up"].read \in Configs
    BY <2>1 DEF WriterRecords
  <2>3. /\ config' = [writer["up"].read EXCEPT !.name = <<"host", 0>>]
        /\ overlapped' = (overlapped \/ \E v \in Writers \ {"up"} : writer[v].read # Nothing)
    BY <1>19 DEF StartWrites, Replace
  <2>4. writer'["up"].at \notin {"read", "loading"} /\ writer'["up"].read = Nothing
    BY <1>19, <2>1 DEF StartWrites, IdleWriter, WriterRecords
  <2>5. \A v \in Writers : v # "up" => writer'[v] = writer[v]
    BY <1>19 DEF StartWrites
  <2>6. ~overlapped' => \A v \in Writers : writer'[v].read = Nothing
    BY <2>3, <2>4, <2>5
  <2>7. ~overlapped' => writer["up"].read = config
    BY <2>1, <2>3
  <2>8. ~overlapped' => (paired' => config'.paired) /\ config'.record = applied'
    BY <1>19, <2>2, <2>3, <2>7 DEF StartWrites, Configs
  <2>9. agent' # "starting"
    BY <1>19 DEF StartWrites
  <2> QED
    BY <2>4, <2>5, <2>6, <2>8, <2>9
<1>20. ASSUME Second PROVE Rewriting'
  BY <1>20, <1>w, <1>r DEF Second
<1>21. CASE UNCHANGED namesVars
  BY <1>21 DEF namesVars
<1> QED
  BY <1>1, <1>2, <1>3, <1>4, <1>5, <1>6, <1>7, <1>8, <1>9, <1>10, <1>11, <1>12, <1>13, <1>14, <1>15,
     <1>16, <1>17, <1>18, <1>19, <1>20, <1>21 DEF NamesNext

\* A device seals a name of its own before its session carries it.
LEMMA SealingStep ==
    ASSUME NamesShape, Sealing, [NamesNext]_namesVars
    PROVE  Sealing'
<1> USE DEF NamesShape, Sealing
<1>w. /\ Devices \subseteq Writers /\ "pair" \in Writers /\ "up" \in Writers /\ Writers = Devices \cup {"pair", "up"}
      /\ "pair" \notin Devices /\ "up" \notin Devices
  BY NamesAssumption DEF Writers
<1>r. Nothing \notin NameRecords /\ Nothing \notin Configs
  BY NamesAssumption
<1>1. ASSUME NEW x \in Devices, Seal(x) PROVE Sealing'
  BY <1>1, <1>w DEF Seal, IdleWriter
<1>2. ASSUME NEW x \in Devices, GivesUp(x) PROVE Sealing'
  BY <1>2, <1>w DEF GivesUp, IdleWriter
<1>3. ASSUME NEW x \in Devices, HandlerReads(x) PROVE Sealing'
  BY <1>3, <1>w DEF HandlerReads, ReadConfig
<1>4. ASSUME NEW x \in Devices, HandlerWrites(x) PROVE Sealing'
  BY <1>4, <1>w DEF HandlerWrites, Replace
<1>5. ASSUME NEW x \in Devices, HandlerFails(x) PROVE Sealing'
  BY <1>5, <1>w DEF HandlerFails, IdleWriter
<1>6. ASSUME NEW x \in Devices, RepublishReads(x) PROVE Sealing'
  BY <1>6, <1>w DEF RepublishReads
<1>7. ASSUME NEW x \in Devices, Republishes(x) PROVE Sealing'
  BY <1>7, <1>w DEF Republishes
<1>8. ASSUME NEW x \in Devices, Acks(x) PROVE Sealing'
  BY <1>8, <1>w DEF Acks, IdleWriter
<1>9. ASSUME Connects PROVE Sealing'
  BY <1>9, <1>w DEF Connects
<1>10. ASSUME ServeReads PROVE Sealing'
  BY <1>10, <1>w DEF ServeReads
<1>11. ASSUME ServePublishes PROVE Sealing'
  BY <1>11, <1>w DEF ServePublishes
<1>12. ASSUME Disconnects PROVE Sealing'
  BY <1>12, <1>w DEF Disconnects, Hangup
<1>13. ASSUME PairBegins PROVE Sealing'
  BY <1>13, <1>w DEF PairBegins
<1>14. ASSUME PairLoads PROVE Sealing'
  BY <1>14, <1>w DEF PairLoads, Replace, IdleWriter
<1>15. ASSUME PairReads PROVE Sealing'
  BY <1>15, <1>w DEF PairReads, ReadConfig
<1>16. ASSUME PairWrites PROVE Sealing'
  BY <1>16, <1>w DEF PairWrites, Replace, IdleWriter
<1>17. ASSUME Stops PROVE Sealing'
  BY <1>17, <1>w DEF Stops, Hangup, IdleWriter
<1>18. ASSUME StartReads PROVE Sealing'
  BY <1>18, <1>w DEF StartReads, ReadConfig
<1>19. ASSUME StartWrites PROVE Sealing'
  BY <1>19, <1>w DEF StartWrites, Replace, IdleWriter
<1>20. ASSUME Second PROVE Sealing'
  BY <1>20, <1>w DEF Second
<1>21. CASE UNCHANGED namesVars
  BY <1>21 DEF namesVars
<1> QED
  BY <1>1, <1>2, <1>3, <1>4, <1>5, <1>6, <1>7, <1>8, <1>9, <1>10, <1>11, <1>12, <1>13, <1>14, <1>15,
     <1>16, <1>17, <1>18, <1>19, <1>20, <1>21 DEF NamesNext

\* Connections are numbered in the order they are made.
LEMMA ConnectingStep ==
    ASSUME NamesShape, Connecting, [NamesNext]_namesVars
    PROVE  Connecting'
<1> USE DEF NamesShape, Connecting
<1>w. /\ Devices \subseteq Writers /\ "pair" \in Writers /\ "up" \in Writers /\ Writers = Devices \cup {"pair", "up"}
      /\ "pair" \notin Devices /\ "up" \notin Devices
  BY NamesAssumption DEF Writers
<1>r. Nothing \notin NameRecords /\ Nothing \notin Configs
  BY NamesAssumption
<1>1. ASSUME NEW x \in Devices, Seal(x) PROVE Connecting'
  BY <1>1, <1>w DEF Seal, IdleWriter
<1>2. ASSUME NEW x \in Devices, GivesUp(x) PROVE Connecting'
  BY <1>2, <1>w DEF GivesUp, IdleWriter
<1>3. ASSUME NEW x \in Devices, HandlerReads(x) PROVE Connecting'
  BY <1>3, <1>w DEF HandlerReads, ReadConfig
<1>4. ASSUME NEW x \in Devices, HandlerWrites(x) PROVE Connecting'
  BY <1>4, <1>w DEF HandlerWrites, Replace
<1>5. ASSUME NEW x \in Devices, HandlerFails(x) PROVE Connecting'
  BY <1>5, <1>w DEF HandlerFails, IdleWriter
<1>6. ASSUME NEW x \in Devices, RepublishReads(x) PROVE Connecting'
  BY <1>6, <1>w DEF RepublishReads
<1>7. ASSUME NEW x \in Devices, Republishes(x) PROVE Connecting'
  BY <1>7, <1>w DEF Republishes
<1>8. ASSUME NEW x \in Devices, Acks(x) PROVE Connecting'
  BY <1>8, <1>w DEF Acks, IdleWriter
<1>9. ASSUME Connects PROVE Connecting'
  <2>1. link' = links + 1 /\ links' = links + 1 /\ UNCHANGED <<writer, ackedOn>>
    BY <1>9 DEF Connects
  <2>2. \A d \in Devices : writer[d].link \in Nat /\ ackedOn[d] \in Nat
    BY <1>w DEF WriterRecords
  <2> QED
    BY <2>1, <2>2
<1>10. ASSUME ServeReads PROVE Connecting'
  BY <1>10, <1>w DEF ServeReads
<1>11. ASSUME ServePublishes PROVE Connecting'
  BY <1>11, <1>w DEF ServePublishes
<1>12. ASSUME Disconnects PROVE Connecting'
  BY <1>12, <1>w DEF Disconnects, Hangup
<1>13. ASSUME PairBegins PROVE Connecting'
  BY <1>13, <1>w DEF PairBegins
<1>14. ASSUME PairLoads PROVE Connecting'
  BY <1>14, <1>w DEF PairLoads, Replace, IdleWriter
<1>15. ASSUME PairReads PROVE Connecting'
  BY <1>15, <1>w DEF PairReads, ReadConfig
<1>16. ASSUME PairWrites PROVE Connecting'
  BY <1>16, <1>w DEF PairWrites, Replace, IdleWriter
<1>17. ASSUME Stops PROVE Connecting'
  BY <1>17, <1>w DEF Stops, Hangup, IdleWriter
<1>18. ASSUME StartReads PROVE Connecting'
  BY <1>18, <1>w DEF StartReads, ReadConfig
<1>19. ASSUME StartWrites PROVE Connecting'
  BY <1>19, <1>w DEF StartWrites, Replace, IdleWriter
<1>20. ASSUME Second PROVE Connecting'
  BY <1>20, <1>w DEF Second
<1>21. CASE UNCHANGED namesVars
  BY <1>21 DEF namesVars
<1> QED
  BY <1>1, <1>2, <1>3, <1>4, <1>5, <1>6, <1>7, <1>8, <1>9, <1>10, <1>11, <1>12, <1>13, <1>14, <1>15,
     <1>16, <1>17, <1>18, <1>19, <1>20, <1>21 DEF NamesNext

\* Only a rename moves the file away from what was acknowledged, and it is another's or a later one.
LEMMA PublishingStep ==
    ASSUME NamesShape, Rewriting, Sealing, Connecting, Publishing, [NamesNext]_namesVars
    PROVE  Publishing'
<1> USE DEF NamesShape, Rewriting, Sealing, Connecting, Publishing
<1>w. /\ Devices \subseteq Writers /\ "pair" \in Writers /\ "up" \in Writers /\ Writers = Devices \cup {"pair", "up"}
      /\ "pair" \notin Devices /\ "up" \notin Devices
  BY NamesAssumption DEF Writers
<1>r. Nothing \notin NameRecords /\ Nothing \notin Configs
  BY NamesAssumption
<1>1. ASSUME NEW x \in Devices, Seal(x) PROVE Publishing'
  BY <1>1, <1>w DEF Seal, IdleWriter
<1>2. ASSUME NEW x \in Devices, GivesUp(x) PROVE Publishing'
  BY <1>2, <1>w DEF GivesUp, IdleWriter
<1>3. ASSUME NEW x \in Devices, HandlerReads(x) PROVE Publishing'
  BY <1>3, <1>w DEF HandlerReads, ReadConfig
<1>4. ASSUME NEW x \in Devices, HandlerWrites(x) PROVE Publishing'
  <2>1. applied' = stored[x] /\ stored[x].name = <<x, renames[x]>> /\ renames[x] >= 1 /\ told[x] # "renamed"
    BY <1>4 DEF HandlerWrites
  <2>2. UNCHANGED <<stored, told>>
    BY <1>4 DEF HandlerWrites
  <2>3. ASSUME NEW d \in Devices, told[d] = "renamed", stored[d] = stored[x] PROVE FALSE
    <3>1. renames[x] \in Nat /\ renames[d] \in Nat
      BY NamesAssumption
    <3>2. stored[d].name = <<"host", 0>> \/ stored[d].name = <<d, renames[d]>>
      OBVIOUS
    <3>3. <<x, renames[x]>>[1] = x /\ <<x, renames[x]>>[2] = renames[x]
      OBVIOUS
    <3>4. d # x
      BY <2>1, <2>3
    <3> QED
      BY <2>1, <2>3, <3>1, <3>2, <3>3, <3>4
  <2> QED
    BY <2>1, <2>2, <2>3
<1>5. ASSUME NEW x \in Devices, HandlerFails(x) PROVE Publishing'
  BY <1>5, <1>w DEF HandlerFails, IdleWriter
<1>6. ASSUME NEW x \in Devices, RepublishReads(x) PROVE Publishing'
  BY <1>6, <1>w DEF RepublishReads
<1>7. ASSUME NEW x \in Devices, Republishes(x) PROVE Publishing'
  BY <1>7, <1>w DEF Republishes
<1>8. ASSUME NEW x \in Devices, Acks(x) PROVE Publishing'
  BY <1>8, <1>w DEF Acks, IdleWriter
<1>9. ASSUME Connects PROVE Publishing'
  BY <1>9, <1>w DEF Connects
<1>10. ASSUME ServeReads PROVE Publishing'
  BY <1>10, <1>w DEF ServeReads
<1>11. ASSUME ServePublishes PROVE Publishing'
  BY <1>11, <1>w DEF ServePublishes
<1>12. ASSUME Disconnects PROVE Publishing'
  BY <1>12, <1>w DEF Disconnects, Hangup
<1>13. ASSUME PairBegins PROVE Publishing'
  BY <1>13, <1>w DEF PairBegins
<1>14. ASSUME PairLoads PROVE Publishing'
  BY <1>14, <1>w DEF PairLoads, Replace, IdleWriter
<1>15. ASSUME PairReads PROVE Publishing'
  BY <1>15, <1>w DEF PairReads, ReadConfig
<1>16. ASSUME PairWrites PROVE Publishing'
  BY <1>16, <1>w DEF PairWrites, Replace, IdleWriter
<1>17. ASSUME Stops PROVE Publishing'
  BY <1>17, <1>w DEF Stops, Hangup, IdleWriter
<1>18. ASSUME StartReads PROVE Publishing'
  BY <1>18, <1>w DEF StartReads, ReadConfig
<1>19. ASSUME StartWrites PROVE Publishing'
  BY <1>19, <1>w DEF StartWrites, Replace, IdleWriter
<1>20. ASSUME Second PROVE Publishing'
  BY <1>20, <1>w DEF Second
<1>21. CASE UNCHANGED namesVars
  BY <1>21 DEF namesVars
<1> QED
  BY <1>1, <1>2, <1>3, <1>4, <1>5, <1>6, <1>7, <1>8, <1>9, <1>10, <1>11, <1>12, <1>13, <1>14, <1>15,
     <1>16, <1>17, <1>18, <1>19, <1>20, <1>21 DEF NamesNext

\* RenameMachine, ProvisionOwner and LoadOrInit: whatever devices rename, connections break and
\* agents restart, config.json loses a name or an owner only to an overlap, and an acknowledged
\* rename is what the relay lists on every later connection.
THEOREM RenamesLast == NamesSpec => []RenameLasts
<1>1. NamesInit => NamesInv
  <2> SUFFICES ASSUME NamesInit PROVE NamesInv
    OBVIOUS
  <2>1. Birth \in NameRecords /\ config \in Configs
    BY NamesAssumption DEF NamesInit, Birth, NameRecords, NamesGiven, Configs
  <2>2. IdleWriter \in WriterRecords /\ IdleWriter.at = "idle" /\ IdleWriter.read = Nothing /\ IdleWriter.link = 0
    BY DEF IdleWriter, WriterRecords
  <2>3. NamesShape
    <3>1. 0 \in 0 .. MaxRenames /\ 0 \in 0 .. MaxClock
      BY NamesAssumption
    <3>2. renames \in [Devices -> 0 .. MaxRenames] /\ clock \in 0 .. MaxClock
      BY <3>1 DEF NamesInit
    <3>3. writer \in [Writers -> WriterRecords] /\ stored \in [Devices -> NameRecords]
      BY <2>1, <2>2 DEF NamesInit
    <3> QED
      BY <2>1, <3>2, <3>3 DEF NamesInit, NamesShape
  <2>4. Rewriting /\ Connecting
    BY <2>2, NamesAssumption DEF NamesInit, Rewriting, Connecting, Writers
  <2>5. Sealing /\ Publishing
    BY <2>2 DEF NamesInit, Sealing, Publishing, Writers, Birth
  <2> QED
    BY <2>3, <2>4, <2>5 DEF NamesInv
<1>2. NamesInv /\ [NamesNext]_namesVars => NamesInv'
  BY NamesShapeStep, RewritingStep, SealingStep, ConnectingStep, PublishingStep DEF NamesInv
<1>3. NamesInv => RenameLasts
  <2> SUFFICES ASSUME NamesInv PROVE RenameLasts
    OBVIOUS
  <2>1. LostOnlyToOverlap
    BY DEF NamesInv, Rewriting, LostOnlyToOverlap
  <2>2. ASSUME NEW d \in Devices, told[d] = "renamed", applied = stored[d], ~overlapped,
               link > ackedOn[d], opening.at = "done"
        PROVE  /\ listed = stored[d]
               /\ \A e \in Devices : stored[e].ts <= stored[d].ts => Shown(e) = stored[d]
    <3>1. listed = stored[d]
      BY <2>2 DEF NamesInv, Publishing
    <3>2. ASSUME NEW e \in Devices, stored[e].ts <= stored[d].ts PROVE Shown(e) = stored[d]
      <4>1. stored[e] \in NameRecords /\ stored[d] \in NameRecords
        BY DEF NamesInv, NamesShape
      <4>2. listed # Nothing
        BY <3>1, <4>1, NamesAssumption
      <4>3. stored[e].ts \in Int /\ stored[d].ts \in Int
        BY <4>1 DEF NameRecords
      <4>4. listed.ts >= stored[e].ts
        BY <3>1, <3>2, <4>3
      <4>5. Shown(e) = [stored[e] EXCEPT !.name = stored[d].name, !.ts = stored[d].ts]
        BY <3>1, <4>2, <4>4 DEF Shown, NewerName
      <4> QED
        BY <4>1, <4>5 DEF NameRecords
    <3> QED
      BY <3>1, <3>2
  <2>3. RenamePublished
    BY <2>2 DEF RenamePublished
  <2> QED
    BY <2>1, <2>3 DEF RenameLasts
<1> QED
  BY <1>1, <1>2, <1>3, PTL DEF NamesSpec

-----------------------------------------------------------------------------
(* TmuxViews, for any number of viewers, windows and commands.             *)
(*                                                                         *)
(* A client is there exactly while its attach is on, and views its own     *)
(* session, the base or the extra one (Viewing); a command carries what    *)
(* the client it was looked up for viewed then (Planned).  The base goes   *)
(* with a cause that is remembered, or with the whole group (Founded).     *)

Viewable(v) == {v, Base, Extra, Nowhere}

Viewing ==
    /\ exists \subseteq Sessions
    /\ DOMAIN cur = Sessions
    /\ DOMAIN wins = {Base, Extra}
    /\ at \in [Viewers -> {"off", "starting", "on", "leaving"}]
    /\ DOMAIN client = Viewers
    /\ \A v \in Viewers :
          /\ client[v] \in Viewable(v)
          /\ client[v] # Nowhere => client[v] \in exists
          /\ at[v] = "on" <=> client[v] # Nowhere

Planned ==
    /\ DOMAIN plan = Viewers
    /\ \A v \in Viewers :
          /\ plan[v].s \in {Base, Extra, Nowhere}
          /\ plan[v].who \in Viewers \cup {Nowhere}
          /\ plan[v].cur \in Viewable(plan[v].who)

Founded ==
    /\ felled = "nothing" => Base \in exists \/ Members(Base) = {}
    /\ lost = "detach" => felled # "nothing"
    /\ lost # "sweep" /\ felled # "own"

ViewInv == Viewing /\ Planned /\ Founded

\* A session that ends takes its clients along.
LEMMA KillViewing ==
    ASSUME Viewing, NEW S, NEW cause, Kill(S, cause)
    PROVE  Viewing'
  BY DEF Viewing, Kill, Viewable

\* A client is moved only to a session that is there.
LEMMA SwitchViewing ==
    ASSUME Viewing, NEW who, who \in Viewers \cup {Nowhere}, NEW t, t \in {Base, Extra},
           client' = client \/ client' = Switched(who, t),
           UNCHANGED <<exists, at>>, DOMAIN cur' = Sessions, DOMAIN wins' = {Base, Extra}
    PROVE  Viewing'
<1>1. \A v \in Viewers : client'[v] = client[v] \/ (client'[v] = t /\ t \in exists /\ client[v] # Nowhere)
  BY DEF Viewing, Switched
<1>2. DOMAIN client' = Viewers
  BY DEF Viewing, Switched
<1>3. t # Nowhere
  BY ViewAssumption
<1> QED
  BY <1>1, <1>2, <1>3 DEF Viewing, Viewable

\* tmuxClient finds a client that is there, or none.
LEMMA OursThere ==
    ASSUME Viewing, NEW v \in Viewers
    PROVE  Ours(v) # Nowhere => Ours(v) \in Viewers /\ client[Ours(v)] # Nowhere
<1>1. CASE client[v] # Nowhere
  BY <1>1 DEF Ours
<1>2. CASE client[v] = Nowhere /\ Cardinality(Clients) = 1
  <2>1. Clients # {}
    BY <1>2, FS_EmptySet
  <2>2. (CHOOSE u \in Clients : TRUE) \in Clients
    BY <2>1
  <2> QED
    BY <1>2, <2>2 DEF Ours, Clients
<1>3. CASE client[v] = Nowhere /\ Cardinality(Clients) # 1
  BY <1>3 DEF Ours
<1> QED
  BY <1>1, <1>2, <1>3

\* A command that is done carries nothing.
LEMMA DonePlanned ==
    ASSUME Planned, NEW v \in Viewers, Done(v)
    PROVE  Planned'
  BY DEF Planned, Done, NoCommand, Viewable

\* What a client views is in a place of its own or in common, and there.
LEMMA ViewingStep ==
    ASSUME Viewing, Planned, [ViewNext]_viewVars
    PROVE  Viewing'
<1> USE DEF Viewing, Viewable
<1>1. ASSUME Crash PROVE Viewing'
  BY <1>1 DEF Crash
<1>2. ASSUME Sweep PROVE Viewing'
  BY <1>2, KillViewing DEF Sweep
<1>3. ASSUME NEW x \in {Base, Extra}, KillByHand(x) PROVE Viewing'
  BY <1>3, KillViewing DEF KillByHand
<1>4. ASSUME NEW v \in Viewers, AttachView(v) PROVE Viewing'
  BY <1>4 DEF AttachView, Sessions
<1>5. ASSUME NEW v \in Viewers, ClientUp(v) PROVE Viewing'
  BY <1>5, ViewAssumption DEF ClientUp, Sessions
<1>6. ASSUME NEW v \in Viewers, ClientFails(v) PROVE Viewing'
  BY <1>6 DEF ClientFails
<1>7. ASSUME NEW v \in Viewers, Leave(v) PROVE Viewing'
  BY <1>7 DEF Leave
<1>8. ASSUME NEW v \in Viewers, DetachView(v) PROVE Viewing'
  <2>1. \A u \in Viewers : client[u] # v
    BY <1>8, ViewAssumption DEF DetachView
  <2>2. exists' = exists \ {v}
    BY <1>8 DEF DetachView
  <2> QED
    BY <1>8, <2>1, <2>2 DEF DetachView
<1>9. ASSUME NEW v \in Viewers, NEW x \in Sessions, TurnTo(v, x) PROVE Viewing'
  BY <1>9, ViewAssumption DEF TurnTo, Sessions
<1>10. ASSUME NEW v \in Viewers, Look(v) PROVE Viewing'
  BY <1>10 DEF Look
<1>11. ASSUME NEW v \in Viewers, SelectWindow(v) PROVE Viewing'
  <2>1. plan[v].who \in Viewers \cup {Nowhere} /\ plan[v].s \in {Base, Extra, Nowhere}
    BY DEF Planned
  <2>2. UNCHANGED <<exists, at, wins>> /\ DOMAIN cur' = Sessions
    BY <1>11 DEF SelectWindow
  <2>3. client' = client \/ (plan[v].s # Nowhere /\ client' = Switched(plan[v].who, plan[v].s))
    BY <1>11 DEF SelectWindow
  <2>4. CASE client' = client
    BY <2>2, <2>4
  <2> QED
    BY <2>1, <2>2, <2>3, <2>4, SwitchViewing
<1>12. ASSUME NEW v \in Viewers, NewWindow(v) PROVE Viewing'
  <2>1. plan[v].who \in Viewers \cup {Nowhere} /\ plan[v].s \in {Base, Extra, Nowhere}
    BY DEF Planned
  <2>2. UNCHANGED <<exists, at>> /\ DOMAIN cur' = Sessions /\ DOMAIN wins' = {Base, Extra}
    BY <1>12 DEF NewWindow
  <2>3. client' = client \/ (plan[v].s # Nowhere /\ client' = Switched(plan[v].who, plan[v].s))
    BY <1>12 DEF NewWindow
  <2>4. CASE client' = client
    BY <2>2, <2>4
  <2> QED
    BY <2>1, <2>2, <2>3, <2>4, SwitchViewing
<1>13. ASSUME NEW v \in Viewers, NextWindow(v) PROVE Viewing'
  BY <1>13 DEF NextWindow
<1>14. ASSUME NEW v \in Viewers, SwitchSession(v) PROVE Viewing'
  <2>1. plan[v].who \in Viewers \cup {Nowhere} /\ plan[v].s \in {Base, Extra, Nowhere}
    BY DEF Planned
  <2>2. UNCHANGED <<exists, at, wins, cur>>
    BY <1>14 DEF SwitchSession
  <2>3. client' = client \/ (plan[v].s # Nowhere /\ client' = Switched(plan[v].who, plan[v].s))
    BY <1>14 DEF SwitchSession
  <2>4. CASE client' = client
    BY <2>2, <2>4
  <2> QED
    BY <2>1, <2>2, <2>3, <2>4, SwitchViewing
<1>15. ASSUME NEW v \in Viewers, NewSession(v) PROVE Viewing'
  BY <1>15, OursThere, ViewAssumption DEF NewSession, Sessions
<1>16. ASSUME NEW v \in Viewers, KillSession(v) PROVE Viewing'
  <2>1. CASE Kill({plan[v].s}, KillFrom(v))
    BY <2>1, KillViewing
  <2>2. CASE UNCHANGED <<exists, cur, client, at, wins>>
    BY <2>2
  <2> QED
    BY <1>16, <2>1, <2>2 DEF KillSession
<1>17. ASSUME NEW v \in Viewers, KillWindow(v) PROVE Viewing'
  <2>1. CASE \E g \in {Base, Extra} : Kill(Members(g), "other")
    BY <2>1, KillViewing
  <2>2. CASE UNCHANGED <<exists, client, at>> /\ DOMAIN cur' = Sessions /\ DOMAIN wins' = {Base, Extra}
    BY <2>2
  <2> QED
    BY <1>17, <2>1, <2>2 DEF KillWindow
<1>18. CASE UNCHANGED viewVars
  BY <1>18 DEF viewVars
<1> QED
  BY <1>1, <1>2, <1>3, <1>4, <1>5, <1>6, <1>7, <1>8, <1>9, <1>10, <1>11, <1>12, <1>13, <1>14,
     <1>15, <1>16, <1>17, <1>18 DEF ViewNext

\* Only Look makes a plan.
LEMMA PlannedStep ==
    ASSUME Viewing, Planned, [ViewNext]_viewVars
    PROVE  Planned'
<1>1. CASE UNCHANGED plan
  BY <1>1 DEF Planned
<1>2. CASE Crash
  BY <1>2 DEF Crash, Planned, NoCommand, Viewable
<1>3. ASSUME NEW v \in Viewers, Look(v) PROVE Planned'
  <2>1. Ours(v) \in Viewers \cup {Nowhere}
    BY OursThere
  <2>2. (IF Ours(v) = Nowhere THEN Nowhere ELSE client[Ours(v)]) \in Viewable(Ours(v))
    BY <2>1 DEF Viewing, Viewable
  <2>3. \A c \in Commands : c.s \in {Base, Extra, Nowhere}
    BY DEF Commands
  <2>4. PICK c \in Commands :
           plan' = [plan EXCEPT ![v] = [a |-> c.a, s |-> c.s, w |-> c.w, who |-> Ours(v),
                       cur |-> IF Ours(v) = Nowhere THEN Nowhere ELSE client[Ours(v)]]]
    BY <1>3 DEF Look
  <2> QED
    BY <2>1, <2>2, <2>3, <2>4 DEF Planned
<1>4. ASSUME NEW v \in Viewers, Done(v) PROVE Planned'
  BY <1>4, DonePlanned
<1>5. Crash \/ UNCHANGED plan \/ \E v \in Viewers : Look(v) \/ Done(v)
  BY DEF ViewNext, viewVars, Sweep, KillByHand, AttachView, ClientUp, ClientFails, Leave, DetachView,
         TurnTo, SelectWindow, NewWindow, NextWindow, SwitchSession, NewSession, KillSession, KillWindow
<1> QED
  BY <1>1, <1>2, <1>3, <1>4, <1>5

\* The sessions of viewers and the base are one group.
LEMMA GroupOf ==
    ASSUME NEW x \in Viewers \cup {Base}
    PROVE  Group(x) = Base
  BY ViewAssumption DEF Group

\* A session that ends for a reason that is neither a detach nor one's own.
LEMMA KillFounded ==
    ASSUME Founded, NEW S, NEW cause, Kill(S, cause),
           cause # "nothing", cause # "detach",
           cause = "sweep" => ~(Members(Base) \subseteq S) /\ Base \notin S,
           cause = "own" => Base \notin S
    PROVE  Founded'
<1>1. Base \in exists' \/ felled' # "nothing" \/ Members(Base)' = {}
  BY DEF Founded, Kill, Members
<1> QED
  BY <1>1 DEF Founded, Kill

\* Whatever ends the base is told apart, and what only a detach or a sweep does ends no group
\* whose base stands.
LEMMA FoundedStep ==
    ASSUME Viewing, Planned, Founded, [ViewNext]_viewVars
    PROVE  Founded'
<1>1. CASE UNCHANGED <<exists, lost, felled>>
  BY <1>1 DEF Founded, Members
<1>2. ASSUME Sweep PROVE Founded'
  <2>1. Orphans \subseteq Viewers /\ Orphans \subseteq Members(Base)
    BY GroupOf DEF Orphans, Members
  <2>2. PICK S : S \subseteq Orphans /\ ~(Members(Base) \subseteq S) /\ Kill(S, "sweep")
    <3>1. CASE Members(Base) = Orphans
      BY <1>2, <3>1 DEF Sweep
    <3>2. CASE Members(Base) # Orphans
      BY <1>2, <2>1, <3>2 DEF Sweep
    <3> QED
      BY <3>1, <3>2
  <2> QED
    BY <2>1, <2>2, KillFounded, ViewAssumption
<1>3. ASSUME NEW x \in {Base, Extra}, KillByHand(x) PROVE Founded'
  BY <1>3, KillFounded DEF KillByHand
<1>4. ASSUME NEW v \in Viewers, AttachView(v) PROVE Founded'
  BY <1>4 DEF AttachView, Founded, Members
<1>5. ASSUME NEW v \in Viewers, ClientUp(v) PROVE Founded'
  BY <1>5 DEF ClientUp, Founded
<1>6. ASSUME NEW v \in Viewers, DetachView(v) PROVE Founded'
  <2>1. Base \in exists => Base \in exists' /\ Base \in Members(Base)
    BY <1>6, GroupOf, ViewAssumption DEF DetachView, Members
  <2>2. Members(Base)' \subseteq Members(Base)
    BY <1>6 DEF DetachView, Members
  <2>3. CASE Members(Base) = {v}
    BY <1>6, <2>1, <2>2, <2>3, ViewAssumption DEF DetachView, Founded
  <2>4. CASE Members(Base) # {v}
    BY <1>6, <2>1, <2>2, <2>4 DEF DetachView, Founded
  <2> QED
    BY <2>3, <2>4
<1>7. ASSUME NEW v \in Viewers, NewSession(v) PROVE Founded'
  <2>1. Base \in exists => Base \in exists'
    BY <1>7 DEF NewSession
  <2>2. Members(Base)' = Members(Base)
    BY <1>7, ViewAssumption DEF NewSession, Members, Group
  <2> QED
    BY <1>7, <2>1, <2>2 DEF NewSession, Founded
<1>8. ASSUME NEW v \in Viewers, KillSession(v) PROVE Founded'
  <2>1. CASE plan[v].s \in exists /\ ~SameView(plan[v].s, plan[v].cur)
    <3>1. KillFrom(v) \in {"own", "other"}
      BY DEF KillFrom
    <3>2. ASSUME KillFrom(v) = "own" PROVE Base # plan[v].s
      <4>1. client[v] \in exists /\ client[v] = plan[v].cur /\ Group(client[v]) = Group(plan[v].s)
        BY <3>2 DEF KillFrom, Viewing
      <4> QED
        BY <2>1, <4>1 DEF SameView
    <3> QED
      BY <1>8, <2>1, <3>1, <3>2, KillFounded DEF KillSession
  <2> QED
    BY <1>8, <1>1, <2>1 DEF KillSession
<1>9. ASSUME NEW v \in Viewers, KillWindow(v) PROVE Founded'
  <2>1. CASE \E g \in {Base, Extra} : Kill(Members(g), "other")
    BY <2>1, KillFounded
  <2> QED
    BY <1>9, <1>1, <2>1 DEF KillWindow
<1> QED
  BY <1>1, <1>2, <1>3, <1>4, <1>5, <1>6, <1>7, <1>8, <1>9
  DEF ViewNext, viewVars, Crash, ClientFails, Leave, TurnTo, Look, SelectWindow, NewWindow, NextWindow, SwitchSession

\* The three together.
LEMMA ViewStep ==
    /\ ViewInit => ViewInv
    /\ ViewInv /\ [ViewNext]_viewVars => ViewInv'
<1>1. ASSUME ViewInit PROVE ViewInv
  BY <1>1 DEF ViewInit, ViewInv, Viewing, Planned, Founded, Viewable, NoCommand, Members
<1> QED
  BY <1>1, ViewingStep, PlannedStep, FoundedStep DEF ViewInv

\* killGroupedSession, sweepOrphanGroupedSessions and runTmuxControl: leaving and sweeping end
\* nobody's windows while the base stands, and no command of a viewer takes its own base away.
THEOREM WorkAlwaysSurvives == ViewSpec => []WorkSurvives
<1>1. ViewInv => WorkSurvives
  BY DEF ViewInv, Founded, WorkSurvives
<1> QED
  BY <1>1, ViewStep, PTL DEF ViewSpec

\* collapseGrouped: an entry of the strip is highlighted, and it is what the client views.
LEMMA StripOwn ==
    ASSUME Viewing
    PROVE  StripShowsOwn
<1> SUFFICES ASSUME NEW v \in Viewers, at[v] = "on", Base \in exists
             PROVE  {e \in Snapshot(v) : e.act}
                      = {[n |-> IF client[v] = Extra THEN Extra ELSE Base, act |-> TRUE,
                          aw |-> cur[client[v]]]}
  BY DEF StripShowsOwn
<1>1. client[v] \in {v, Base, Extra} /\ client[v] \in exists
  BY DEF Viewing, Viewable
<1> DEFINE own == client[v] \in Viewers
           home == IF client[v] = Extra THEN Extra ELSE Base
           entry(t) == [n |-> t, act |-> (t = client[v] \/ (t = Base /\ own)),
                        aw |-> IF t = Base /\ own THEN cur[client[v]] ELSE cur[t]]
<1>2. Snapshot(v) = {entry(t) : t \in exists \ Viewers}
  BY DEF Snapshot
<1>3. home \in exists \ Viewers
  BY <1>1, ViewAssumption
<1>4. entry(home).n = home /\ entry(home).act = TRUE /\ entry(home).aw = cur[client[v]]
  BY <1>1, ViewAssumption
<1>5. \A t \in exists \ Viewers : entry(t).act => t = home
  BY <1>1, ViewAssumption
<1>6. entry(home) = [n |-> home, act |-> TRUE, aw |-> cur[client[v]]]
  BY <1>4
<1> HIDE DEF entry, home
<1> QED
  <2>1. {e \in Snapshot(v) : e.act} = {entry(home)}
    BY <1>2, <1>3, <1>4, <1>5
  <2> QED
    BY <2>1, <1>6 DEF home

\* A command that was looked up for its own client selects in a session that is its own or
\* in common.
LEMMA OwnViewMoves ==
    ASSUME Viewing, Planned, [ViewNext]_viewVars,
           NEW v \in Viewers, NEW u \in Viewers,
           plan[v].a \in {"select", "next"}, plan'[v] = NoCommand,
           plan[v].cur # Nowhere, plan[v].who = v, client[u] = u, u # v
    PROVE  cur'[u] = cur[u]
<1>1. u \notin {v, Base, Extra} /\ u \in Sessions
  BY ViewAssumption DEF Sessions
<1>2. plan[v].cur \in {v, Base, Extra} /\ plan[v].s \in {Base, Extra, Nowhere}
  BY DEF Planned, Viewable
<1>3. CASE SelectWindow(v)
  BY <1>1, <1>2, <1>3 DEF SelectWindow, Viewing
<1>4. CASE NextWindow(v)
  BY <1>1, <1>2, <1>4 DEF NextWindow, Viewing
<1>5. CASE Crash
  BY <1>5 DEF Crash
<1>6. plan'[v] # plan[v]
  BY DEF NoCommand
<1>7. \A x \in Viewers : Done(x) => x = v
  BY <1>6 DEF Done, Planned
<1>8. \A x \in Viewers : ~Look(x)
  BY <1>6 DEF Look, Planned, NoCommand, Commands
<1>9. plan' # plan
  BY <1>6
<1>10. ASSUME ~Crash
       PROVE \E x \in Viewers : \/ SelectWindow(x) \/ NextWindow(x) \/ NewWindow(x) \/ SwitchSession(x)
                              \/ NewSession(x) \/ KillSession(x) \/ KillWindow(x)
  <2>1. ~Sweep /\ ~(\E x \in {Base, Extra} : KillByHand(x))
    BY <1>9 DEF Sweep, KillByHand
  <2>2. \A x \in Viewers : /\ ~AttachView(x) /\ ~ClientUp(x) /\ ~ClientFails(x) /\ ~Leave(x) /\ ~DetachView(x)
                           /\ \A y \in Sessions : ~TurnTo(x, y)
    BY <1>9 DEF AttachView, ClientUp, ClientFails, Leave, DetachView, TurnTo
  <2> QED
    BY <1>8, <1>9, <1>10, <2>1, <2>2 DEF ViewNext, viewVars
<1>11. \A x \in Viewers : (SelectWindow(x) \/ NextWindow(x) \/ NewWindow(x) \/ SwitchSession(x)
                              \/ NewSession(x) \/ KillSession(x) \/ KillWindow(x)) => Done(x)
  BY DEF SelectWindow, NewWindow, NextWindow, SwitchSession, NewSession, KillSession, KillWindow
<1>12. ~NewWindow(v) /\ ~SwitchSession(v) /\ ~NewSession(v) /\ ~KillSession(v) /\ ~KillWindow(v)
  BY DEF NewWindow, SwitchSession, NewSession, KillSession, KillWindow
<1> QED
  BY <1>3, <1>4, <1>5, <1>7, <1>10, <1>11, <1>12

\* runTmuxControl and collapseGrouped: whatever the viewers of one group do at once, none moves
\* the window of another, and each is shown what it looks at.
THEOREM ViewsStayApart == ViewSpec => ViewsApart
<1>1. ViewInv /\ ViewInv' /\ [ViewNext]_viewVars => [StripShowsOwn']_viewVars
  <2> SUFFICES ASSUME ViewInv' PROVE StripShowsOwn'
    OBVIOUS
  <2>1. Viewing'
    BY DEF ViewInv
  <2> QED
    BY <2>1, StripOwn, PTL
<1>2. ViewInv /\ [ViewNext]_viewVars =>
        [\A v, u \in Viewers :
          (/\ plan[v].a \in {"select", "next"} /\ plan'[v] = NoCommand
           /\ plan[v].cur # Nowhere /\ plan[v].who = v
           /\ client[u] = u /\ u # v)
              => cur'[u] = cur[u]]_viewVars
  BY OwnViewMoves DEF ViewInv
<1> QED
  BY <1>1, <1>2, ViewStep, PTL DEF ViewSpec, ViewsApart, MovesOwnView
=================================================================================
