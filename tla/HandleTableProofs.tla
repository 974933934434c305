-------------------------- MODULE HandleTableProofs --------------------------
(***************************************************************************)
(* The shape of the handle tables, proved for any number of processes and  *)
(* objects and any size: what alloc_entry, shrink_handle_table,            *)
(* copy_handle_table and close_handle take for granted of a table and      *)
(* leave behind; and from it that references are counted exactly and that  *)
(* a handle names one object until it is closed: as long as no process     *)
(* closes a handle of another one whose fd is cached.                      *)
(***************************************************************************)
EXTENDS HandleTable, FiniteSetTheorems, TLAPS

AllMarks == {"inherit", "protect", "fd"}
TableType == [count : 1..MaxCount, last : -1..(MaxCount - 1), free : 0..MaxCount,
              entries : [Index -> Entries]]

\* What shrink_handle_table expects of a table: all but a used last entry.
Filled(tb) ==
  /\ tb \in TableType
  /\ tb.last < tb.count
  /\ \A i \in Index : i <= tb.last => tb.entries[i].ptr # Junk
  /\ \A i \in Index : i < tb.free => i <= tb.last /\ tb.entries[i].ptr \in Objects

\* The shape every function of handle.c leaves a table in.
TableOK(tb) ==
  /\ Filled(tb)
  /\ tb.last >= 0 => tb.entries[tb.last].ptr # NoObject

\* The inductive invariant.
Shape ==
  /\ alive \subseteq Processes
  /\ table \in [Tables -> TableType]
  /\ \A T \in Tables : TableOK(table[T])

-----------------------------------------------------------------------------
(***************************************************************************)
(* Integers: a set with an upper bound has a largest element.              *)
(***************************************************************************)
\* A set of natural numbers that is not empty has a smallest element.
LEMMA SmallestOf ==
  ASSUME NEW S, S \subseteq Nat, S # {}
  PROVE  \E n \in S : \A m \in S : n <= m
<1>1. PICK n \in S : \A m \in S : ~ (<<m, n>> \in OpToRel(<, Nat))
  BY NatLessThanWellFounded, WFMin, Zenon
<1>2. \A m \in S : m < n => <<m, n>> \in OpToRel(<, Nat)
  BY <1>1 DEF OpToRel
<1>3. n \in Nat /\ \A m \in S : m \in Nat
  BY <1>1
<1>4. ASSUME NEW m \in S PROVE n <= m
  <2>1. ~ (m < n)
    BY <1>1, <1>2, Zenon
  <2> QED
    BY <1>3, <2>1
<1> QED
  BY <1>1, <1>4

\* A set of integers that is bounded above and not empty has a largest element.
LEMMA LargestOf ==
  ASSUME NEW hi, hi \in Int, NEW S, S \subseteq Int, S # {}, \A x \in S : x <= hi
  PROVE  \E n \in S : \A m \in S : m <= n
<1> DEFINE D == {d \in Nat : \E x \in S : d = hi - x}
<1>1. \A x \in S : x \in Int /\ hi - x \in D
  OBVIOUS
<1>2. D \subseteq Nat /\ D # {}
  BY <1>1
<1> HIDE DEF D
<1>3. PICK d \in D : \A e \in D : d <= e
  BY <1>2, SmallestOf
<1>4. PICK n \in S : d = hi - n
  BY <1>3 DEF D
<1>5. ASSUME NEW m \in S PROVE m <= n
  <2>1. m \in Int /\ n \in Int /\ hi - m \in D
    BY <1>1
  <2>2. d <= hi - m
    BY <1>3, <2>1
  <2> QED
    BY <1>4, <2>1, <2>2
<1> QED
  BY <1>5

-----------------------------------------------------------------------------
(***************************************************************************)
(* What the functions of handle.c do to the shape of a table.              *)
(***************************************************************************)
\* shrink_handle_table finds its last used entry: the loop downwards ends on one, or on -1.
LEMMA LastExists ==
  ASSUME NEW tb, tb \in TableType
  PROVE  LastUsedEntry(tb) \in -1..tb.last /\ IsLastUsed(tb, LastUsedEntry(tb))
<1> DEFINE U == {l \in -1..tb.last : l = -1 \/ tb.entries[l].ptr # NoObject}
<1>1. tb.last \in Int /\ tb.last >= -1
  BY SizeAssumption DEF TableType
<1>2. U \subseteq Int /\ -1 \in U /\ \A x \in U : x <= tb.last
  BY <1>1
<1> HIDE DEF U
<1>3. PICK l \in U : \A m \in U : m <= l
  BY <1>1, <1>2, LargestOf
<1>4. l \in -1..tb.last /\ (l = -1 \/ (l \in 0..tb.last /\ tb.entries[l].ptr # NoObject))
  BY <1>1, <1>3 DEF U
<1>5. ASSUME NEW j \in 0..tb.last, j > l PROVE tb.entries[j].ptr = NoObject
  <2> SUFFICES ASSUME tb.entries[j].ptr # NoObject PROVE FALSE
    OBVIOUS
  <2>1. j \in U
    BY <1>1 DEF U
  <2>2. j <= l /\ j \in Int /\ l \in Int
    BY <1>1, <1>2, <1>3, <2>1
  <2> QED
    BY <1>5, <2>2
<1> QED
  BY <1>4, <1>5 DEF IsLastUsed, LastUsedEntry

\* shrink_handle_table leaves a table with a used last entry and keeps every handle.
LEMMA ShrunkOK ==
  ASSUME NEW tb, Filled(tb)
  PROVE  TableOK(Shrunk(tb)) /\ \A u \in Objects : Naming(Shrunk(tb), u) = Naming(tb, u)
<1> DEFINE last == LastUsedEntry(tb)
           count == IF last < tb.count \div 4 /\ tb.count >= 2 * MIN_HANDLE_ENTRIES
                    THEN tb.count \div 2 ELSE tb.count
           entries == [i \in Index |-> IF i < count THEN tb.entries[i] ELSE Unset]
<1>1. last \in -1..tb.last /\ IsLastUsed(tb, last)
  BY LastExists DEF Filled
<1>2. Shrunk(tb) = [count |-> count, last |-> last, free |-> tb.free, entries |-> entries]
  BY DEF Shrunk, Cut
<1> HIDE DEF last
<1>3. /\ tb.count \in 1..MaxCount /\ tb.last \in -1..(MaxCount - 1) /\ tb.free \in 0..MaxCount
      /\ tb.entries \in [Index -> Entries] /\ tb.last < tb.count
      /\ MIN_HANDLE_ENTRIES \in Nat \ {0} /\ MaxCount \in Nat
  BY SizeAssumption DEF Filled, TableType
<1>4. count \in 1..MaxCount /\ last < count
  BY <1>1, <1>3
<1> HIDE DEF count
<1>5. entries \in [Index -> Entries]
  BY <1>3 DEF Unset, Entry, Entries
<1>6. ASSUME NEW i \in Index, i <= last
      PROVE  entries[i] = tb.entries[i] /\ entries[i].ptr # Junk
  BY <1>1, <1>3, <1>4, <1>6 DEF Filled, Index
<1>7. ASSUME NEW i \in Index, i < tb.free
      PROVE  i <= last /\ entries[i].ptr \in Objects
  <2>1. i <= tb.last /\ tb.entries[i].ptr \in Objects
    BY <1>7 DEF Filled
  <2>2. i <= last
    BY <1>1, <1>3, <2>1, NameAssumption DEF IsLastUsed, Index
  <2> QED
    BY <1>6, <2>1, <2>2
<1>8. ASSUME last >= 0 PROVE entries[last].ptr # NoObject
  <2>1. last \in Index /\ tb.entries[last].ptr # NoObject
    BY <1>1, <1>3, <1>8 DEF IsLastUsed, Index
  <2> QED
    BY <1>1, <1>6, <2>1
<1>9. ASSUME NEW u \in Objects, NEW i \in Index, i <= tb.last, tb.entries[i].ptr = u PROVE i <= last
  BY <1>1, <1>3, <1>9, NameAssumption DEF IsLastUsed, Index
<1> HIDE DEF entries
<1>10. TableOK(Shrunk(tb))
  BY <1>1, <1>2, <1>3, <1>4, <1>5, <1>6, <1>7, <1>8 DEF TableOK, Filled, TableType
<1>11. ASSUME NEW u \in Objects PROVE Naming(Shrunk(tb), u) = Naming(tb, u)
  <2>1. Naming(Shrunk(tb), u) = {i \in Index : i <= last /\ entries[i].ptr = u}
    BY <1>2 DEF Naming
  <2>2. \A i \in Index : i <= last => i <= tb.last
    BY <1>1, <1>3 DEF Index
  <2> QED
    BY <1>6, <1>9, <2>1, <2>2 DEF Naming
<1> QED
  BY <1>10, <1>11

\* alloc_handle_table makes a table of the right shape.
LEMMA NewTableOK == TableOK(NewTable(MIN_HANDLE_ENTRIES))
<1>1. [i \in Index |-> Unset] \in [Index -> Entries]
  BY DEF Unset, Entry, Entries
<1> QED
  BY <1>1, SizeAssumption DEF TableOK, Filled, TableType, NewTable, Index

\* The facts about a table that the lemmas below use.
LEMMA TableFacts ==
  ASSUME NEW tb, Filled(tb)
  PROVE  /\ tb.count \in 1..MaxCount /\ tb.last \in -1..(MaxCount - 1) /\ tb.free \in 0..MaxCount
         /\ tb.entries \in [Index -> Entries] /\ tb.last < tb.count
         /\ MaxCount \in Nat /\ tb.free <= tb.last + 1
<1>1. /\ tb.count \in 1..MaxCount /\ tb.last \in -1..(MaxCount - 1) /\ tb.free \in 0..MaxCount
      /\ tb.entries \in [Index -> Entries] /\ tb.last < tb.count /\ MaxCount \in Nat
  BY SizeAssumption DEF Filled, TableType
<1>2. tb.free <= tb.last + 1
  <2>1. CASE tb.free = 0
    BY <1>1, <2>1
  <2>2. CASE tb.free > 0
    <3>1. tb.free - 1 \in Index
      BY <1>1, <2>2 DEF Index
    <3>2. tb.free - 1 <= tb.last
      BY <1>1, <3>1 DEF Filled
    <3> QED
      BY <1>1, <3>2
  <2> QED
    BY <1>1, <2>1, <2>2
<1> QED
  BY <1>1, <1>2

\* alloc_entry fills the first free entry, so that there is one more handle, and every
\* entry below the new free is in use.
LEMMA AllocOK ==
  ASSUME NEW tb, TableOK(tb), NEW i \in Index, IsSlot(tb, i),
         i < tb.count \/ 2 * tb.count <= MaxCount,
         NEW o \in Objects, NEW attr \in SUBSET AllMarks
  PROVE  /\ TableOK(Alloc(tb, i, o, attr))
         /\ \A u \in Objects :
              /\ i \notin Naming(tb, u)
              /\ Naming(Alloc(tb, i, o, attr), u) = Naming(tb, u) \cup IF u = o THEN {i} ELSE {}
<1> DEFINE count == IF i >= tb.count THEN 2 * tb.count ELSE tb.count
           last == IF i > tb.last THEN i ELSE tb.last
           entries == [tb.entries EXCEPT ![i] = Entry(o, attr)]
<1>1. Alloc(tb, i, o, attr) = [count |-> count, last |-> last, free |-> i + 1, entries |-> entries]
  BY DEF Alloc
<1>2. /\ tb.count \in 1..MaxCount /\ tb.last \in -1..(MaxCount - 1) /\ tb.free \in 0..MaxCount
      /\ tb.entries \in [Index -> Entries] /\ tb.last < tb.count
      /\ MaxCount \in Nat /\ tb.free <= tb.last + 1
  BY TableFacts DEF TableOK
<1>3. i \in Int /\ 0 <= i /\ i < MaxCount /\ i <= tb.last + 1
  BY <1>2 DEF Index, IsSlot
<1>4. count \in 1..MaxCount /\ last \in -1..(MaxCount - 1) /\ last < count
  BY <1>2, <1>3
<1>5. Entry(o, attr) \in Entries /\ Entry(o, attr).ptr = o
  BY DEF Entry, Entries, AllMarks
<1>6. entries \in [Index -> Entries] /\ entries[i].ptr = o
      /\ \A j \in Index : j # i => entries[j] = tb.entries[j]
  BY <1>2, <1>5
<1>7. ASSUME NEW j \in Index, j <= last PROVE entries[j].ptr # Junk
  <2>1. CASE j = i
    BY <1>6, <2>1, NameAssumption
  <2>2. CASE j # i
    <3>1. j <= tb.last
      BY <1>2, <1>3, <1>7, <2>2 DEF Index
    <3> QED
      BY <1>6, <2>2, <3>1 DEF TableOK, Filled
  <2> QED
    BY <2>1, <2>2
<1>8. ASSUME NEW j \in Index, j < i + 1 PROVE j <= last /\ entries[j].ptr \in Objects
  <2>0. j <= last /\ j \in Int /\ 0 <= j
    BY <1>2, <1>3, <1>8 DEF Index
  <2>1. CASE j = i
    BY <1>6, <2>0, <2>1
  <2>2. CASE j < tb.free
    BY <1>6, <2>0, <2>1, <2>2 DEF TableOK, Filled
  <2>3. CASE j # i /\ j >= tb.free
    <3>1. j \in tb.free..tb.last /\ j < i
      BY <1>2, <1>3, <1>8, <2>0, <2>3
    <3>2. tb.entries[j].ptr # NoObject
      BY <1>3, <3>1 DEF IsSlot
    <3>3. tb.entries[j].ptr # Junk
      BY <1>2, <3>1 DEF TableOK, Filled
    <3>4. tb.entries[j].ptr \in Objects
      BY <1>2, <3>2, <3>3 DEF Entries
    <3> QED
      BY <1>6, <2>0, <2>3, <3>4
  <2> QED
    BY <1>2, <2>0, <2>1, <2>2, <2>3
<1>9. ASSUME last >= 0 PROVE entries[last].ptr # NoObject
  <2>1. CASE last = i
    BY <1>6, <2>1, NameAssumption
  <2>2. CASE last # i
    <3>1. last = tb.last /\ last \in Index
      BY <1>2, <1>4, <1>9, <2>2 DEF Index
    <3> QED
      BY <1>6, <1>9, <2>2, <3>1 DEF TableOK
  <2> QED
    BY <2>1, <2>2
<1>10. i + 1 \in 0..MaxCount
  BY <1>2, <1>3
<1>11. ASSUME NEW u \in Objects PROVE i \notin Naming(tb, u)
  BY <1>2, <1>3, NameAssumption DEF Naming, IsSlot
<1>12. ASSUME NEW j \in Index, j # i PROVE j <= last <=> j <= tb.last
  BY <1>2, <1>3, <1>12 DEF Index
<1>13. i <= last
  BY <1>2, <1>3
<1> HIDE DEF count, last, entries
<1>14. TableOK(Alloc(tb, i, o, attr))
  BY <1>1, <1>4, <1>6, <1>7, <1>8, <1>9, <1>10 DEF TableOK, Filled, TableType
<1>15. ASSUME NEW u \in Objects
       PROVE  Naming(Alloc(tb, i, o, attr), u) = Naming(tb, u) \cup IF u = o THEN {i} ELSE {}
  <2>1. Naming(Alloc(tb, i, o, attr), u) = {j \in Index : j <= last /\ entries[j].ptr = u}
    BY <1>1 DEF Naming
  <2>2. \A j \in Index : j # i => (j <= last /\ entries[j].ptr = u <=> j <= tb.last /\ tb.entries[j].ptr = u)
    BY <1>6, <1>12
  <2>3. i <= last /\ entries[i].ptr = u <=> u = o
    BY <1>6, <1>13
  <2> QED
    BY <1>11, <2>1, <2>2, <2>3 DEF Naming
<1> QED
  BY <1>11, <1>14, <1>15

\* close_handle clears an entry, brings free back and shrinks the table if it was the last;
\* every other handle stays.
LEMMA ClosedOK ==
  ASSUME NEW tb, TableOK(tb), NEW i \in Index, i <= tb.last
  PROVE  /\ TableOK(Closed(tb, i))
         /\ \A u \in Objects : Naming(Closed(tb, i), u) = Naming(tb, u) \ {i}
<1> DEFINE free == IF i < tb.free THEN i ELSE tb.free
           entries == [tb.entries EXCEPT ![i] = Empty]
           cleared == [count |-> tb.count, last |-> tb.last, free |-> free, entries |-> entries]
<1>1. Closed(tb, i) = IF i = tb.last THEN Shrunk(cleared) ELSE cleared
  BY DEF Closed
<1>2. /\ tb.count \in 1..MaxCount /\ tb.last \in -1..(MaxCount - 1) /\ tb.free \in 0..MaxCount
      /\ tb.entries \in [Index -> Entries] /\ tb.last < tb.count
      /\ MaxCount \in Nat /\ i \in 0..(MaxCount - 1)
  BY TableFacts DEF TableOK, Index
<1>3. Empty \in Entries /\ Empty.ptr = NoObject
  BY DEF Empty, Entry, Entries
<1>4. /\ entries \in [Index -> Entries] /\ entries[i].ptr = NoObject
      /\ \A j \in Index : j # i => entries[j] = tb.entries[j]
  BY <1>2, <1>3
<1>5. free \in 0..MaxCount /\ free <= i /\ free <= tb.free
  BY <1>2
<1>6. ASSUME NEW j \in Index, j <= tb.last PROVE entries[j].ptr # Junk
  BY <1>4, <1>6, NameAssumption DEF TableOK, Filled
<1>7. ASSUME NEW j \in Index, j < free PROVE j <= tb.last /\ entries[j].ptr \in Objects
  <2>1. j < tb.free /\ j # i
    BY <1>2, <1>5, <1>7 DEF Index
  <2> QED
    BY <1>4, <2>1 DEF TableOK, Filled
<1> HIDE DEF free, entries
<1>8. Filled(cleared)
  BY <1>2, <1>4, <1>5, <1>6, <1>7 DEF Filled, TableType
<1>9. ASSUME NEW u \in Objects PROVE Naming(cleared, u) = Naming(tb, u) \ {i}
  <2>1. Naming(cleared, u) = {j \in Index : j <= tb.last /\ entries[j].ptr = u}
    BY DEF Naming
  <2> QED
    BY <1>4, <2>1, NameAssumption DEF Naming
<1>10. CASE i = tb.last
  <2>1. TableOK(Shrunk(cleared)) /\ \A u \in Objects : Naming(Shrunk(cleared), u) = Naming(cleared, u)
    BY <1>8, ShrunkOK
  <2> QED
    BY <1>1, <1>9, <1>10, <2>1
<1>11. CASE i # tb.last
  <2>1. tb.last \in Index /\ entries[tb.last] = tb.entries[tb.last] /\ tb.last >= 0
    BY <1>2, <1>4, <1>11 DEF Index
  <2>2. cleared.last >= 0 => cleared.entries[cleared.last].ptr # NoObject
    BY <2>1 DEF TableOK
  <2>3. TableOK(cleared)
    BY <1>8, <2>2 DEF TableOK
  <2> QED
    BY <1>1, <1>9, <1>11, <2>3
<1> QED
  BY <1>10, <1>11

\* copy_handle_table: the child's table has the right shape whatever it inherits, and
\* the handles that may be inherited.
LEMMA InheritedOK ==
  ASSUME NEW tb, TableOK(tb)
  PROVE  /\ TableOK(Inherited(tb))
         /\ \A u \in Objects :
              Naming(Inherited(tb), u) = {i \in Naming(tb, u) : "inherit" \in tb.entries[i].marks}
<1> DEFINE entries == [i \in Index |->
             IF i > tb.last THEN Unset
             ELSE IF "inherit" \in tb.entries[i].marks
             THEN Entry(tb.entries[i].ptr, tb.entries[i].marks \ {"fd"}) ELSE Empty]
           copy == [count |-> tb.count, last |-> tb.last, free |-> 0, entries |-> entries]
<1>1. Inherited(tb) = Shrunk(copy)
  BY DEF Inherited
<1>2. /\ tb.count \in 1..MaxCount /\ tb.last \in -1..(MaxCount - 1)
      /\ tb.entries \in [Index -> Entries] /\ tb.last < tb.count /\ MaxCount \in Nat
  BY TableFacts DEF TableOK
<1>3. ASSUME NEW i \in Index
      PROVE  entries[i] \in Entries /\ (i <= tb.last => entries[i].ptr # Junk)
  <2>1. tb.entries[i] \in Entries /\ (i <= tb.last => tb.entries[i].ptr # Junk)
    BY <1>2 DEF TableOK, Filled
  <2>2. i \in Int /\ tb.last \in Int
    BY <1>2 DEF Index
  <2> QED
    BY <2>1, <2>2, NameAssumption DEF Unset, Empty, Entry, Entries
<1>4. entries \in [Index -> Entries]
  BY <1>3
<1>5. ASSUME NEW u \in Objects
      PROVE  Naming(copy, u) = {i \in Naming(tb, u) : "inherit" \in tb.entries[i].marks}
  <2>1. Naming(copy, u) = {i \in Index : i <= tb.last /\ entries[i].ptr = u}
    BY DEF Naming
  <2>2. ASSUME NEW i \in Index, i <= tb.last
        PROVE  entries[i].ptr = u <=> tb.entries[i].ptr = u /\ "inherit" \in tb.entries[i].marks
    <3>1. ~(i > tb.last)
      BY <1>2, <2>2 DEF Index
    <3> QED
      BY <3>1, NameAssumption DEF Empty, Entry
  <2> HIDE DEF entries
  <2> QED
    BY <2>1, <2>2 DEF Naming
<1> HIDE DEF entries
<1>6. \A i \in Index : ~ (i < 0)
  BY <1>2 DEF Index
<1>7. Filled(copy)
  BY <1>2, <1>3, <1>4, <1>6 DEF Filled, TableType
<1> QED
  BY <1>1, <1>5, <1>7, ShrunkOK

\* set_handle_flags, set_handle_unix_fd and flush_cached_fd leave the shape and the
\* handles alone.
LEMMA RemarkedOK ==
  ASSUME NEW tb, TableOK(tb), NEW i \in Index, NEW marks \in SUBSET AllMarks
  PROVE  /\ TableOK(Remarked(tb, i, marks))
         /\ \A u \in Objects : Naming(Remarked(tb, i, marks), u) = Naming(tb, u)
<1> DEFINE entries == [tb.entries EXCEPT ![i] = Entry(tb.entries[i].ptr, marks)]
<1>1. Remarked(tb, i, marks) =
        [count |-> tb.count, last |-> tb.last, free |-> tb.free, entries |-> entries]
  BY DEF Remarked
<1>2. /\ tb.count \in 1..MaxCount /\ tb.last \in -1..(MaxCount - 1) /\ tb.free \in 0..MaxCount
      /\ tb.entries \in [Index -> Entries] /\ tb.last < tb.count /\ MaxCount \in Nat
  BY TableFacts DEF TableOK
<1>3. entries \in [Index -> Entries] /\ \A j \in Index : entries[j].ptr = tb.entries[j].ptr
  BY <1>2 DEF Entry, Entries, AllMarks
<1>4. tb.last >= 0 => tb.last \in Index
  BY <1>2 DEF Index
<1> HIDE DEF entries
<1>5. TableOK(Remarked(tb, i, marks))
  BY <1>1, <1>2, <1>3, <1>4 DEF TableOK, Filled, TableType
<1>6. \A u \in Objects : Naming(Remarked(tb, i, marks), u) = Naming(tb, u)
  BY <1>1, <1>3 DEF Naming
<1> QED
  BY <1>5, <1>6

-----------------------------------------------------------------------------
(***************************************************************************)
(* Every handle is a reference to its object.                              *)
(***************************************************************************)
\* A new handle h of the object o; and a handle h of the object o that is closed.
Gained(old, new, h, o) ==
  /\ h \in Tables \X Index
  /\ \A u \in Objects : /\ h \notin References(old, u)
                        /\ References(new, u) = References(old, u) \cup IF u = o THEN {h} ELSE {}
Dropped(old, new, h, o) ==
  \A u \in Objects : /\ h \in References(old, u) <=> u = o
                     /\ References(new, u) = References(old, u) \ {h}

\* There are finitely many handles.
LEMMA ReferencesFinite ==
  ASSUME NEW tab, NEW u
  PROVE  IsFiniteSet(References(tab, u)) /\ Cardinality(References(tab, u)) \in Nat
<1>1. IsFiniteSet(Tables)
  BY NameAssumption, FS_AddElement DEF Tables
<1>2. IsFiniteSet(Index)
  BY SizeAssumption, FS_Interval DEF Index
<1>3. IsFiniteSet(Tables \X Index)
  BY <1>1, <1>2, FS_Product
<1>4. References(tab, u) \in SUBSET (Tables \X Index)
  BY DEF References
<1> QED
  BY <1>3, <1>4, FS_Subset, FS_CardinalityType

\* The handles of one table are as many as their entries.
LEMMA RowCount ==
  ASSUME NEW T, NEW S, S \in SUBSET Index
  PROVE  /\ Cardinality({T} \X S) = Cardinality(S) /\ Cardinality(S) \in Nat
         /\ IsFiniteSet({T} \X S)
<1>1. IsFiniteSet(S)
  <2>1. IsFiniteSet(Index)
    BY SizeAssumption, FS_Interval DEF Index
  <2> QED
    BY <2>1, FS_Subset
<1>2. IsFiniteSet({T}) /\ Cardinality({T}) = 1
  BY FS_Singleton
<1>3. Cardinality(S) \in Nat
  BY <1>1, FS_CardinalityType
<1>4. IsFiniteSet({T} \X S) /\ Cardinality({T} \X S) = Cardinality({T}) * Cardinality(S)
  BY <1>1, <1>2, FS_Product
<1> QED
  BY <1>2, <1>3, <1>4

\* A row of handles is added to a set of them, or taken out of it.
LEMMA RowAdded ==
  ASSUME NEW A, IsFiniteSet(A), NEW T, NEW S \in SUBSET Index, A \cap ({T} \X S) = {}
  PROVE  Cardinality(A \cup ({T} \X S)) = Cardinality(A) + Cardinality(S)
<1> DEFINE R == {T} \X S
<1>1. IsFiniteSet(R) /\ Cardinality(R) = Cardinality(S) /\ Cardinality(S) \in Nat
  BY RowCount
<1>2. Cardinality(A) \in Nat /\ A \cap R = {} /\ Cardinality({}) = 0
  BY FS_CardinalityType, FS_EmptySet
<1> HIDE DEF R
<1>3. Cardinality(A \cup R) = Cardinality(A) + Cardinality(R) - Cardinality(A \cap R)
  BY <1>1, FS_Union
<1>4. Cardinality(A \cap R) = 0
  BY <1>2
<1>5. Cardinality(A \cup R) = Cardinality(A) + Cardinality(S)
  <2>1. Cardinality(R) = Cardinality(S) /\ Cardinality(S) \in Nat /\ Cardinality(A) \in Nat
    BY <1>1, <1>2
  <2> QED
    BY <1>3, <1>4, <2>1
<1> QED
  BY <1>5 DEF R

\* The handles of one table go all at once.
LEMMA RowDropped ==
  ASSUME NEW A, IsFiniteSet(A), NEW T, NEW S \in SUBSET Index, {T} \X S \subseteq A
  PROVE  Cardinality(A \ ({T} \X S)) = Cardinality(A) - Cardinality(S)
<1> DEFINE R == {T} \X S
<1>1. Cardinality(R) = Cardinality(S)
  BY RowCount
<1>2. A \cap R = R
  OBVIOUS
<1> HIDE DEF R
<1>3. Cardinality(A \ R) = Cardinality(A) - Cardinality(A \cap R)
  BY FS_Difference
<1>4. Cardinality(A \ R) = Cardinality(A) - Cardinality(S)
  BY <1>1, <1>2, <1>3
<1> QED
  BY <1>4 DEF R

\* A new table names nothing.
LEMMA NewTableEmpty ==
  \A u : Naming(NewTable(MIN_HANDLE_ENTRIES), u) = {}
BY SizeAssumption DEF Naming, NewTable, Index

\* A table is replaced: the handles of the others stay.
LEMMA ReplacedReferences ==
  ASSUME NEW tab, tab \in [Tables -> TableType], NEW T \in Tables, NEW tb, tb \in TableType,
         NEW new, new = [tab EXCEPT ![T] = tb], NEW u, NEW h \in Tables \X Index
  PROVE  h \in References(new, u) <=> IF h[1] = T THEN h[2] \in Naming(tb, u) ELSE h \in References(tab, u)
<1>1. new[T] = tb /\ \A U \in Tables : U # T => new[U] = tab[U]
  BY Zenon
<1>2. h[1] \in Tables
  OBVIOUS
<1> QED
  BY <1>1, <1>2, Zenon DEF References

\* alloc_handle makes one handle.
LEMMA AllocReferences ==
  ASSUME NEW tab, tab \in [Tables -> TableType], NEW T \in Tables, TableOK(tab[T]),
         NEW i \in Index, IsSlot(tab[T], i), i < tab[T].count \/ 2 * tab[T].count <= MaxCount,
         NEW o \in Objects, NEW attr \in SUBSET AllMarks,
         NEW new, new = [tab EXCEPT ![T] = Alloc(tab[T], i, o, attr)]
  PROVE  Gained(tab, new, <<T, i>>, o)
<1> DEFINE tb == Alloc(tab[T], i, o, attr)
           h == <<T, i>>
<1>1. /\ TableOK(tb)
      /\ \A u \in Objects : /\ i \notin Naming(tab[T], u)
                            /\ Naming(tb, u) = Naming(tab[T], u) \cup IF u = o THEN {i} ELSE {}
  BY AllocOK
<1>2. tb \in TableType /\ new = [tab EXCEPT ![T] = tb]
  BY <1>1 DEF TableOK, Filled
<1> HIDE DEF tb
<1>3. ASSUME NEW u \in Objects, NEW g \in Tables \X Index
      PROVE  g \in References(new, u) <=> g \in References(tab, u) \/ (u = o /\ g = h)
  <2>1. g \in References(new, u) <=> IF g[1] = T THEN g[2] \in Naming(tb, u) ELSE g \in References(tab, u)
    BY <1>2, ReplacedReferences
  <2>2. g = <<g[1], g[2]>> /\ (g \in References(tab, u) <=> g[2] \in Naming(tab[g[1]], u))
    BY DEF References
  <2>3. g = h <=> g[1] = T /\ g[2] = i
    BY <2>2
  <2> QED
    BY <1>1, <2>1, <2>2, <2>3
<1>4. h \in Tables \X Index /\ \A u \in Objects : h \notin References(tab, u)
  BY <1>1 DEF References
<1> HIDE DEF h
<1>5. ASSUME NEW u \in Objects PROVE References(new, u) = References(tab, u) \cup IF u = o THEN {h} ELSE {}
  <2>1. References(new, u) \subseteq Tables \X Index /\ References(tab, u) \subseteq Tables \X Index
    BY DEF References
  <2> QED
    BY <1>3, <1>4, <2>1
<1>6. Gained(tab, new, h, o)
  BY <1>4, <1>5 DEF Gained
<1> QED
  BY <1>6 DEF h

\* close_handle takes one handle away.
LEMMA ClosedReferences ==
  ASSUME NEW tab, tab \in [Tables -> TableType], NEW T \in Tables, TableOK(tab[T]),
         NEW i \in Index, i <= tab[T].last,
         NEW new, new = [tab EXCEPT ![T] = Closed(tab[T], i)]
  PROVE  Dropped(tab, new, <<T, i>>, tab[T].entries[i].ptr)
<1> DEFINE tb == Closed(tab[T], i)
           h == <<T, i>>
           o == tab[T].entries[i].ptr
<1>1. TableOK(tb) /\ \A u \in Objects : Naming(tb, u) = Naming(tab[T], u) \ {i}
  BY ClosedOK
<1>2. tb \in TableType /\ new = [tab EXCEPT ![T] = tb]
  BY <1>1 DEF TableOK, Filled
<1>3. \A u \in Objects : i \in Naming(tab[T], u) <=> u = o
  BY DEF Naming
<1> HIDE DEF tb, o
<1>4. ASSUME NEW u \in Objects, NEW g \in Tables \X Index
      PROVE  g \in References(new, u) <=> g \in References(tab, u) /\ g # h
  <2>1. g \in References(new, u) <=> IF g[1] = T THEN g[2] \in Naming(tb, u) ELSE g \in References(tab, u)
    BY <1>2, ReplacedReferences
  <2>2. g = <<g[1], g[2]>> /\ (g \in References(tab, u) <=> g[2] \in Naming(tab[g[1]], u))
    BY DEF References
  <2>3. g = h <=> g[1] = T /\ g[2] = i
    BY <2>2
  <2> QED
    BY <1>1, <2>1, <2>2, <2>3
<1>5. h \in Tables \X Index /\ \A u \in Objects : h \in References(tab, u) <=> u = o
  BY <1>3 DEF References
<1> HIDE DEF h
<1>6. ASSUME NEW u \in Objects PROVE References(new, u) = References(tab, u) \ {h}
  <2>1. References(new, u) \subseteq Tables \X Index /\ References(tab, u) \subseteq Tables \X Index
    BY DEF References
  <2> QED
    BY <1>4, <2>1
<1>7. Dropped(tab, new, h, o)
  BY <1>5, <1>6 DEF Dropped
<1> QED
  BY <1>7 DEF h, o

-----------------------------------------------------------------------------
(***************************************************************************)
(* Every request keeps the shape of every table.                           *)
(***************************************************************************)
\* A request that replaces one table by one of the right shape.
LEMMA OneTable ==
  ASSUME Shape, alive' \subseteq Processes, NEW T \in Tables, NEW tb, TableOK(tb),
         table' = [table EXCEPT ![T] = tb]
  PROVE  Shape'
<1>1. tb \in TableType
  BY DEF TableOK, Filled
<1>2. table' \in [Tables -> TableType]
  BY <1>1 DEF Shape
<1>3. ASSUME NEW U \in Tables PROVE TableOK(table'[U])
  <2>1. CASE U = T
    <3>1. table'[U] = tb
      BY <2>1 DEF Shape
    <3> QED
      BY <3>1
  <2>2. CASE U # T
    <3>1. table'[U] = table[U]
      BY <2>2 DEF Shape
    <3> QED
      BY <3>1 DEF Shape
  <2> QED
    BY <2>1, <2>2
<1> QED
  BY <1>2, <1>3 DEF Shape

\* get_handle returns an entry that names an object, never one that nobody initialised.
LEMMA ValidNamesObject ==
  ASSUME Shape, NEW T \in Tables, NEW i \in Index, Valid(T, i)
  PROVE  i <= table[T].last /\ table[T].entries[i].ptr \in Objects
<1>1. TableOK(table[T])
  BY DEF Shape
<1>2. table[T].entries[i] \in Entries /\ table[T].entries[i].ptr # Junk
  BY <1>1, TableFacts DEF TableOK, Filled, Valid
<1> QED
  BY <1>2 DEF Valid, Entries

\* duplicate_handle: every table keeps its shape and the source is still there.
LEMMA DuplicatedOK ==
  ASSUME Shape, NEW T \in Tables, NEW i \in Index, Valid(T, i), NEW dst \in Tables,
         NEW attr \in Attrs, NEW new \in Duplicated(T, i, dst, attr)
  PROVE  /\ new \in [Tables -> TableType]
         /\ \A U \in Tables : TableOK(new[U])
         /\ i <= new[T].last
         /\ \E j : Gained(table, new, <<dst, j>>, table[T].entries[i].ptr)
         /\ dst \in alive \cup {Global}
         /\ new[T].entries[i].ptr = table[T].entries[i].ptr
<1> DEFINE o == table[T].entries[i].ptr
           mark == IF dst = Global THEN {} ELSE attr
<1>1. PICK j \in Index : /\ dst \in alive \cup {Global} /\ IsSlot(table[dst], j) /\ CanAlloc(dst, j)
                        /\ new = [table EXCEPT ![dst] = Alloc(table[dst], j, o, mark)]
  BY DEF Duplicated
<1>2. o \in Objects /\ i <= table[T].last
  BY ValidNamesObject
<1>3. mark \in SUBSET AllMarks
  BY DEF Attrs, AllMarks
<1> DEFINE tb == Alloc(table[dst], j, o, mark)
<1> HIDE DEF o, mark
<1>4. TableOK(table[dst]) /\ table \in [Tables -> TableType]
  BY DEF Shape
<1>5. TableOK(tb)
  BY <1>1, <1>2, <1>3, <1>4, AllocOK DEF CanAlloc
<1>6. Gained(table, new, <<dst, j>>, o)
  BY <1>1, <1>2, <1>3, <1>4, AllocReferences DEF CanAlloc
<1>7. new[T].entries[i].ptr = o
  <2>1. <<T, i>> \in References(table, o)
    BY <1>2 DEF References, Naming, o
  <2>2. <<T, i>> \in References(new, o)
    BY <1>2, <1>6, <2>1 DEF Gained
  <2> QED
    BY <2>2 DEF References, Naming
<1>8. tb.last = IF j > table[dst].last THEN j ELSE table[dst].last
  BY DEF Alloc
<1>9. new = [table EXCEPT ![dst] = tb]
  BY <1>1
<1> HIDE DEF tb
<1>10. tb \in TableType
  BY <1>5 DEF TableOK, Filled
<1>11. new \in [Tables -> TableType] /\ new[dst] = tb /\ \A U \in Tables : U # dst => new[U] = table[U]
  BY <1>4, <1>9, <1>10
<1>12. ASSUME NEW U \in Tables PROVE TableOK(new[U])
  BY <1>5, <1>11 DEF Shape
<1>13. i <= new[T].last
  <2>1. CASE T # dst
    BY <1>2, <1>11, <2>1
  <2>2. CASE T = dst
    <3>1. table[dst].last \in Int /\ i \in Int /\ j \in Int
      BY <1>4, TableFacts DEF TableOK, Index
    <3> QED
      BY <1>2, <1>8, <1>11, <2>2, <3>1
  <2> QED
    BY <2>1, <2>2
<1> QED
  BY <1>1, <1>6, <1>7, <1>11, <1>12, <1>13 DEF o

\* dup_handle with DUP_HANDLE_CLOSE_SOURCE, when no process closes what it cannot close.
LEMMA DupHandleCloseShape ==
  ASSUME Shape, CloseRemote = FALSE, NEW src \in Processes, NEW T \in Tables, NEW i \in Index,
         NEW dst \in Tables, NEW attr \in Attrs, DupHandleClose(src, T, i, dst, attr)
  PROVE  Shape'
<1> DEFINE dup == Duplicated(T, i, dst, attr)
<1>1. Valid(T, i) /\ alive' = alive
  BY DEF DupHandleClose
<1>2. PICK new \in IF dup = {} THEN {table} ELSE dup :
         table' = [new EXCEPT ![T] = Closed(new[T], i)]
  BY DEF DupHandleClose
<1>3. /\ new \in [Tables -> TableType]
      /\ \A U \in Tables : TableOK(new[U])
      /\ i <= new[T].last
  <2>1. CASE dup = {}
    BY <1>1, <1>2, <2>1, ValidNamesObject DEF Shape
  <2>2. CASE dup # {}
    <3>1. new \in dup
      BY <1>2, <2>2
    <3> QED
      BY <1>1, <3>1, DuplicatedOK
  <2> QED
    BY <2>1, <2>2
<1> HIDE DEF dup
<1> DEFINE tb == Closed(new[T], i)
<1>4. TableOK(tb)
  BY <1>3, ClosedOK
<1>5. table' = [new EXCEPT ![T] = tb]
  BY <1>2
<1> HIDE DEF tb
<1>6. tb \in TableType
  BY <1>4 DEF TableOK, Filled
<1>7. /\ table' \in [Tables -> TableType] /\ table'[T] = tb
      /\ \A U \in Tables : U # T => table'[U] = new[U]
  BY <1>3, <1>5, <1>6
<1>8. ASSUME NEW U \in Tables PROVE TableOK(table'[U])
  BY <1>3, <1>4, <1>7
<1> QED
  BY <1>1, <1>7, <1>8 DEF Shape

\* A request of a process keeps the shape.
LEMMA RequestShape ==
  ASSUME Shape, CloseRemote = FALSE, NEW p \in alive, Request(p)
  PROVE  Shape'
<1>1. /\ p \in Processes /\ p \in Tables /\ Global \in Tables /\ TableOK(table[p])
      /\ Usable(p) \subseteq Tables /\ Attrs \subseteq SUBSET AllMarks
  BY DEF Shape, Tables, Usable, Attrs, AllMarks
<1>2. ASSUME NEW o \in Objects, NEW attr \in Attrs, CreateObject(p, o, attr) \/ OpenObject(p, o, attr)
      PROVE  Shape'
  <2>1. PICK i \in Index : /\ IsSlot(table[p], i) /\ CanAlloc(p, i)
                          /\ table' = [table EXCEPT ![p] = Alloc(table[p], i, o, attr)]
                          /\ alive' = alive
    BY <1>2 DEF CreateObject, OpenObject
  <2>2. attr \in SUBSET AllMarks
    BY <1>1
  <2>3. TableOK(Alloc(table[p], i, o, attr))
    BY <1>1, <2>1, <2>2, AllocOK DEF CanAlloc
  <2>4. alive' \subseteq Processes
    BY <2>1 DEF Shape
  <2> QED
    BY <1>1, <2>1, <2>3, <2>4, OneTable
<1>3. ASSUME NEW T \in Usable(p), NEW i \in Handles(T) PROVE
        /\ T \in Tables /\ i \in Index /\ TableOK(table[T]) /\ i <= table[T].last
        /\ Valid(T, i) /\ Marked(T, i) \in SUBSET AllMarks
  <2>1. T \in Tables /\ i \in Index /\ Valid(T, i) /\ TableOK(table[T])
    BY <1>1 DEF Handles, Shape
  <2>2. i <= table[T].last
    BY <2>1, ValidNamesObject
  <2>3. table[T].entries[i] \in Entries
    BY <2>1, TableFacts DEF TableOK
  <2> QED
    BY <2>1, <2>2, <2>3 DEF Marked, Entries, AllMarks
<1>4. ASSUME NEW T \in Usable(p), NEW i \in Handles(T), CloseHandle(p, T, i)
      PROVE  Shape'
  <2>1. TableOK(Closed(table[T], i))
    BY <1>3, ClosedOK
  <2>2. table' = [table EXCEPT ![T] = Closed(table[T], i)] /\ alive' \subseteq Processes
    BY <1>4 DEF CloseHandle, Shape
  <2> QED
    BY <1>3, <2>1, <2>2, OneTable
<1>5. ASSUME NEW T \in Usable(p), NEW i \in Handles(T), BeginWait(p, T, i)
      PROVE  Shape'
  BY <1>5 DEF BeginWait, Shape
<1>6. ASSUME NEW T \in Usable(p), NEW i \in Handles(T), NEW flags \in SUBSET {"inherit", "protect"},
             SetHandleInfo(p, T, i, flags)
      PROVE  Shape'
  <2> DEFINE marks == flags \cup (Marked(T, i) \cap {"fd"})
  <2>1. marks \in SUBSET AllMarks
    BY DEF AllMarks
  <2>2. table' = [table EXCEPT ![T] = Remarked(table[T], i, marks)] /\ alive' \subseteq Processes
    BY <1>6 DEF SetHandleInfo, Shape
  <2> HIDE DEF marks
  <2>3. TableOK(Remarked(table[T], i, marks))
    BY <1>3, <2>1, RemarkedOK
  <2> QED
    BY <1>3, <2>2, <2>3, OneTable
<1>7. ASSUME NEW T \in Usable(p), NEW i \in Handles(T), NEW dst \in Tables, NEW attr \in Attrs,
             DupHandle(p, T, i, dst, attr)
      PROVE  Shape'
  <2>1. table' \in Duplicated(T, i, dst, attr) /\ alive' \subseteq Processes
    BY <1>7 DEF DupHandle, Shape
  <2>2. table' \in [Tables -> TableType] /\ \A U \in Tables : TableOK(table'[U])
    BY <1>3, <2>1, DuplicatedOK
  <2> QED
    BY <2>1, <2>2 DEF Shape
<1>8. ASSUME NEW T \in Usable(p), NEW i \in Handles(T), NEW dst \in Tables, NEW attr \in Attrs,
             DupHandleClose(p, T, i, dst, attr)
      PROVE  Shape'
  BY <1>1, <1>3, <1>8, DupHandleCloseShape
<1>9. ASSUME NEW i \in Handles(p), CacheFd(p, i) \/ FlushFd(p, i)
      PROVE  Shape'
  <2>1. PICK marks \in SUBSET AllMarks :
          table' = [table EXCEPT ![p] = Remarked(table[p], i, marks)] /\ alive' \subseteq Processes
    <3>1. p \in Usable(p) /\ Marked(p, i) \in SUBSET AllMarks
      BY <1>3 DEF Usable
    <3>2. Marked(p, i) \cup {"fd"} \in SUBSET AllMarks /\ Marked(p, i) \ {"fd"} \in SUBSET AllMarks
      BY <3>1 DEF AllMarks
    <3>3. CASE CacheFd(p, i)
      BY <3>2, <3>3 DEF CacheFd, Shape
    <3>4. CASE FlushFd(p, i)
      BY <3>2, <3>4 DEF FlushFd, Shape
    <3> QED
      BY <1>9, <3>3, <3>4
  <2>2. i \in Index
    BY DEF Handles
  <2>3. TableOK(Remarked(table[p], i, marks))
    BY <1>1, <2>2, RemarkedOK
  <2> QED
    BY <1>1, <2>1, <2>3, OneTable
<1>10. ASSUME NEW q \in Processes, InheritProcess(p, q)
       PROVE  Shape'
  <2>1. TableOK(Inherited(table[p])) /\ q \in Tables
    BY <1>1, InheritedOK DEF Tables
  <2>2. table' = [table EXCEPT ![q] = Inherited(table[p])] /\ alive' \subseteq Processes
    BY <1>10 DEF InheritProcess, Shape
  <2> QED
    BY <2>1, <2>2, OneTable
<1>11. CASE ExitProcess(p)
  <2>1. table' = [table EXCEPT ![p] = NewTable(MIN_HANDLE_ENTRIES)] /\ alive' \subseteq Processes
    BY <1>11 DEF ExitProcess, Shape
  <2> QED
    BY <1>1, <2>1, NewTableOK, OneTable
<1> QED
  BY <1>2, <1>4, <1>5, <1>6, <1>7, <1>8, <1>9, <1>10, <1>11, Zenon DEF Request

\* Every table keeps its shape for ever, for any number of processes and objects and for
\* tables of any size.
THEOREM ShapeInvariant ==
  ASSUME CloseRemote = FALSE
  PROVE  Spec => []Shape
<1>1. Init => Shape
  <2> SUFFICES ASSUME Init PROVE Shape
    OBVIOUS
  <2>1. NewTable(MIN_HANDLE_ENTRIES) \in TableType
    BY NewTableOK DEF TableOK, Filled
  <2>2. table \in [Tables -> TableType] /\ \A T \in Tables : table[T] = NewTable(MIN_HANDLE_ENTRIES)
    BY <2>1 DEF Init
  <2> QED
    BY <2>2, NewTableOK DEF Init, Shape
<1>2. Shape /\ [Next]_vars => Shape'
  <2> SUFFICES ASSUME Shape, [Next]_vars PROVE Shape'
    OBVIOUS
  <2>1. ASSUME NEW p \in alive, Request(p) PROVE Shape'
    BY <2>1, RequestShape
  <2>2. ASSUME NEW q \in Processes, StartProcess(q) PROVE Shape'
    <3>1. /\ table' = [table EXCEPT ![q] = NewTable(MIN_HANDLE_ENTRIES)]
          /\ alive' \subseteq Processes /\ q \in Tables
      BY <2>2 DEF StartProcess, Shape, Tables
    <3> QED
      BY <3>1, NewTableOK, OneTable
  <2>3. ASSUME NEW o \in Objects, EndWait(o) PROVE Shape'
    BY <2>3 DEF EndWait, Shape
  <2>4. CASE UNCHANGED vars
    BY <2>4 DEF vars, Shape
  <2> QED
    BY <2>1, <2>2, <2>3, <2>4 DEF Next
<1> QED
  BY <1>1, <1>2, PTL DEF Spec

\* get_handle and alloc_entry never read an entry that nobody initialised.
THEOREM InitialisedHolds ==
  ASSUME CloseRemote = FALSE
  PROVE  Spec => []Initialised
<1>1. Shape => Initialised
  <2> SUFFICES ASSUME Shape, NEW T \in Tables
               PROVE  /\ table[T].last < table[T].count
                      /\ table[T].free <= table[T].last + 1
                      /\ \A i \in Index : i <= table[T].last => table[T].entries[i].ptr # Junk
    BY DEF Initialised
  <2>1. TableOK(table[T])
    BY DEF Shape
  <2> QED
    BY <2>1, TableFacts DEF TableOK, Filled
<1> QED
  BY <1>1, ShapeInvariant, PTL

\* Every entry below table->free is in use, so that alloc_entry returns the first free one.
THEOREM FirstFreeHolds ==
  ASSUME CloseRemote = FALSE
  PROVE  Spec => []FirstFree
<1>1. Shape => FirstFree
  BY DEF Shape, TableOK, Filled, FirstFree
<1> QED
  BY <1>1, ShapeInvariant, PTL

\* table->last is an entry in use, or -1.
THEOREM LastUsedHolds ==
  ASSUME CloseRemote = FALSE
  PROVE  Spec => []LastUsed
<1>1. Shape => LastUsed
  BY DEF Shape, TableOK, LastUsed
<1> QED
  BY <1>1, ShapeInvariant, PTL

-----------------------------------------------------------------------------
(***************************************************************************)
(* The references are counted.                                             *)
(***************************************************************************)
\* The inductive invariant: the references are counted, and only the tables of the
\* processes that live, and the global one, have handles.
RefInv ==
  /\ refcount \in [Objects -> Int] /\ waiting \in [Objects -> Nat]
  /\ RefcountExact
  /\ \A u \in Objects : \A h \in References(table, u) : h[1] \in alive \cup {Global}

\* A step closes at most one handle of the processes that live on, and not a protected one.
ClosesOne ==
  \E g : \A u \in Objects : \A h \in References(table, u) \ References(table', u) :
    h[1] \notin alive' \cup {Global} \/ (h = g /\ "protect" \notin table[h[1]].entries[h[2]].marks)

\* A step makes a handle and counts it.
LEMMA GainStep ==
  ASSUME RefInv, NEW h, NEW o \in Objects, Gained(table, table', h, o), h[1] \in alive \cup {Global},
         alive' = alive, waiting' = waiting, refcount' = [refcount EXCEPT ![o] = refcount[o] + 1]
  PROVE  RefInv' /\ ClosesOne
<1>1. ASSUME NEW u \in Objects PROVE refcount'[u] = waiting'[u] + Cardinality(References(table', u))
  <2>1. refcount[u] = waiting[u] + Cardinality(References(table, u)) /\ waiting[u] \in Nat
    BY DEF RefInv, RefcountExact
  <2>2. /\ h \notin References(table, u)
        /\ References(table', u) = References(table, u) \cup IF u = o THEN {h} ELSE {}
    BY DEF Gained
  <2>3. IsFiniteSet(References(table, u)) /\ Cardinality(References(table, u)) \in Nat
    BY ReferencesFinite
  <2>4. CASE u = o
    <3>1. Cardinality(References(table', u)) = Cardinality(References(table, u)) + 1
      BY <2>2, <2>3, <2>4, FS_AddElement
    <3>2. refcount'[u] = refcount[u] + 1
      BY <2>4 DEF RefInv
    <3> QED
      BY <2>1, <2>3, <3>1, <3>2
  <2>5. CASE u # o
    <3>1. References(table', u) = References(table, u) /\ refcount'[u] = refcount[u]
      BY <2>2, <2>5 DEF RefInv
    <3> QED
      BY <2>1, <3>1
  <2> QED
    BY <2>4, <2>5
<1>2. refcount' \in [Objects -> Int] /\ waiting' \in [Objects -> Nat]
  <2>1. refcount[o] + 1 \in Int
    BY DEF RefInv
  <2> QED
    BY <2>1 DEF RefInv
<1>3. \A u \in Objects : \A g \in References(table', u) : g[1] \in alive' \cup {Global}
  BY DEF RefInv, Gained
<1>4. \A u \in Objects : References(table, u) \subseteq References(table', u)
  BY DEF Gained
<1> QED
  BY <1>1, <1>2, <1>3, <1>4 DEF RefInv, RefcountExact, ClosesOne

\* A step changes no handle and no count.
LEMMA SameStep ==
  ASSUME RefInv, alive \subseteq alive', UNCHANGED <<refcount, waiting>>,
         \A u \in Objects : References(table', u) = References(table, u)
  PROVE  RefInv' /\ ClosesOne
<1>1. RefInv'
  BY DEF RefInv, RefcountExact
<1> QED
  BY <1>1 DEF ClosesOne

\* A step closes a handle and counts it; it may have made another one before.
LEMMA DropStep ==
  ASSUME RefInv, NEW new, NEW gained \in {0, 1}, NEW h, NEW o \in Objects,
         \/ gained = 0 /\ new = table
         \/ gained = 1 /\ \E g : Gained(table, new, g, o) /\ g[1] \in alive \cup {Global},
         Dropped(new, table', h, o), "protect" \notin table[h[1]].entries[h[2]].marks,
         alive' = alive, waiting' = waiting,
         refcount' = [refcount EXCEPT ![o] = refcount[o] + gained - 1]
  PROVE  RefInv' /\ ClosesOne
<1> DEFINE Between(u) ==
             /\ Cardinality(References(new, u)) =
                  Cardinality(References(table, u)) + IF u = o THEN gained ELSE 0
             /\ References(table, u) \subseteq References(new, u)
             /\ \A g \in References(new, u) : g[1] \in alive \cup {Global}
<1>1. ASSUME NEW u \in Objects PROVE IsFiniteSet(References(new, u)) /\ Between(u)
  <2>1. /\ IsFiniteSet(References(new, u)) /\ IsFiniteSet(References(table, u))
        /\ Cardinality(References(table, u)) \in Nat
    BY ReferencesFinite
  <2>2. CASE gained = 0 /\ new = table
    BY <2>1, <2>2 DEF RefInv
  <2>3. ASSUME gained = 1, NEW g, Gained(table, new, g, o), g[1] \in alive \cup {Global}
        PROVE  Between(u)
    <3>1. /\ g \notin References(table, u)
          /\ References(new, u) = References(table, u) \cup IF u = o THEN {g} ELSE {}
      BY <2>3 DEF Gained
    <3>2. Cardinality(References(new, u)) = Cardinality(References(table, u)) + IF u = o THEN 1 ELSE 0
      <4>1. CASE u = o
        BY <2>1, <3>1, <4>1, FS_AddElement
      <4>2. CASE u # o
        BY <2>1, <3>1, <4>2
      <4> QED
        BY <4>1, <4>2
    <3>3. \A k \in References(new, u) : k[1] \in alive \cup {Global}
      BY <2>3, <3>1 DEF RefInv
    <3> QED
      BY <2>1, <2>3, <3>1, <3>2, <3>3
  <2> QED
    BY <2>1, <2>2, <2>3
<1>2. ASSUME NEW u \in Objects PROVE refcount'[u] = waiting'[u] + Cardinality(References(table', u))
  <2>1. /\ refcount[u] = waiting[u] + Cardinality(References(table, u)) /\ waiting[u] \in Nat
        /\ Cardinality(References(table, u)) \in Nat
    BY ReferencesFinite DEF RefInv, RefcountExact
  <2>2. (h \in References(new, u) <=> u = o) /\ References(table', u) = References(new, u) \ {h}
    BY DEF Dropped
  <2>3. CASE u = o
    <3>1. Cardinality(References(table', u)) = Cardinality(References(new, u)) - 1
      BY <1>1, <2>2, <2>3, FS_RemoveElement
    <3>2. refcount'[u] = refcount[u] + gained - 1
      BY <2>3 DEF RefInv
    <3> QED
      BY <1>1, <2>1, <2>3, <3>1, <3>2
  <2>4. CASE u # o
    <3>1. References(table', u) = References(new, u) /\ refcount'[u] = refcount[u]
      BY <2>2, <2>4 DEF RefInv
    <3> QED
      BY <1>1, <2>1, <2>4, <3>1
  <2> QED
    BY <2>3, <2>4
<1>3. refcount' \in [Objects -> Int] /\ waiting' \in [Objects -> Nat]
  <2>1. refcount[o] + gained - 1 \in Int
    BY DEF RefInv
  <2> QED
    BY <2>1 DEF RefInv
<1>4. \A u \in Objects : \A g \in References(table', u) : g[1] \in alive' \cup {Global}
  BY <1>1 DEF Dropped
<1>5. \A u \in Objects : \A g \in References(table, u) \ References(table', u) : g = h
  BY <1>1 DEF Dropped
<1> QED
  BY <1>2, <1>3, <1>4, <1>5 DEF RefInv, RefcountExact, ClosesOne

\* A process starts with the handles that it inherits: each is a reference.
LEMMA InheritStep ==
  ASSUME Shape, RefInv, NEW p \in alive, NEW q \in Processes, InheritProcess(p, q)
  PROVE  RefInv' /\ ClosesOne
<1> DEFINE tb == Inherited(table[p])
           passed(u) == {i \in Naming(table[p], u) : "inherit" \in Marked(p, i)}
<1>1. /\ p \in Tables /\ q \in Tables /\ q \notin alive /\ q # Global /\ TableOK(table[p])
      /\ table \in [Tables -> TableType]
  BY NameAssumption DEF Shape, Tables, InheritProcess
<1>2. TableOK(tb) /\ \A u \in Objects : Naming(tb, u) = passed(u)
  BY <1>1, InheritedOK DEF Marked
<1>3. tb \in TableType /\ table' = [table EXCEPT ![q] = tb]
  BY <1>2 DEF TableOK, Filled, InheritProcess
<1> HIDE DEF tb
<1>4. /\ alive' = alive \cup {q} /\ waiting' = waiting
      /\ refcount' = [u \in Objects |-> refcount[u] + Cardinality(passed(u))]
  BY DEF InheritProcess
<1>5. ASSUME NEW u \in Objects
      PROVE  /\ References(table', u) = References(table, u) \cup ({q} \X passed(u))
             /\ References(table, u) \cap ({q} \X passed(u)) = {}
             /\ passed(u) \in SUBSET Index
  <2>1. passed(u) \in SUBSET Index /\ Naming(tb, u) = passed(u)
    BY <1>2 DEF Naming
  <2> HIDE DEF passed
  <2>2. \A h \in References(table, u) : h[1] # q
    BY <1>1 DEF RefInv
  <2>3. ASSUME NEW h \in Tables \X Index
        PROVE  h \in References(table', u) <=> h \in References(table, u) \/ h \in {q} \X passed(u)
    <3>1. h \in References(table', u) <=> IF h[1] = q THEN h[2] \in Naming(tb, u) ELSE h \in References(table, u)
      BY <1>1, <1>3, ReplacedReferences
    <3>2. h = <<h[1], h[2]>>
      OBVIOUS
    <3>3. h \in {q} \X passed(u) <=> h[1] = q /\ h[2] \in passed(u)
      BY <3>2
    <3> QED
      BY <2>1, <2>2, <3>1, <3>3
  <2>4. References(table', u) \subseteq Tables \X Index /\ References(table, u) \subseteq Tables \X Index
    BY DEF References
  <2>5. {q} \X passed(u) \subseteq Tables \X Index
    BY <1>1, <2>1
  <2>6. References(table, u) \cap ({q} \X passed(u)) = {}
    BY <2>2
  <2> QED
    BY <2>1, <2>3, <2>4, <2>5, <2>6
<1>6. ASSUME NEW u \in Objects
      PROVE  Cardinality({q} \X passed(u)) = Cardinality(passed(u)) /\ Cardinality(passed(u)) \in Nat
             /\ IsFiniteSet({q} \X passed(u))
  BY <1>5, RowCount
<1> HIDE DEF passed
<1>7. ASSUME NEW u \in Objects PROVE refcount'[u] = waiting'[u] + Cardinality(References(table', u))
  <2>1. Cardinality(References(table', u)) = Cardinality(References(table, u)) + Cardinality(passed(u))
    <3>1. PICK A : A = References(table, u)
      OBVIOUS
    <3>2. PICK S : S = passed(u)
      OBVIOUS
    <3>3. IsFiniteSet(A) /\ A \cap ({q} \X S) = {} /\ S \in SUBSET Index
      BY <1>5, <3>1, <3>2, ReferencesFinite
    <3>4. Cardinality(A \cup ({q} \X S)) = Cardinality(A) + Cardinality(S)
      BY <3>3, RowAdded
    <3>5. References(table', u) = A \cup ({q} \X S)
      BY <1>5, <3>1, <3>2
    <3> QED
      BY <3>1, <3>2, <3>4, <3>5
  <2>2. /\ refcount[u] = waiting[u] + Cardinality(References(table, u)) /\ waiting[u] \in Nat
        /\ Cardinality(References(table, u)) \in Nat
    BY ReferencesFinite DEF RefInv, RefcountExact
  <2>3. refcount'[u] = refcount[u] + Cardinality(passed(u)) /\ waiting'[u] = waiting[u]
    BY <1>4
  <2>4. Cardinality(passed(u)) \in Nat
    BY <1>6
  <2> QED
    BY <2>1, <2>2, <2>3, <2>4
<1>8. refcount' \in [Objects -> Int] /\ waiting' \in [Objects -> Nat]
  <2>1. ASSUME NEW u \in Objects PROVE refcount[u] + Cardinality(passed(u)) \in Int
    <3>1. refcount[u] \in Int
      BY DEF RefInv
    <3>2. Cardinality(passed(u)) \in Nat
      BY <1>6
    <3> QED
      BY <3>1, <3>2
  <2>2. waiting' \in [Objects -> Nat]
    BY <1>4 DEF RefInv
  <2> QED
    BY <1>4, <2>1, <2>2
<1>9. \A u \in Objects : \A g \in References(table', u) : g[1] \in alive' \cup {Global}
  BY <1>4, <1>5 DEF RefInv
<1>10. \A u \in Objects : References(table, u) \subseteq References(table', u)
  BY <1>5
<1> QED
  BY <1>7, <1>8, <1>9, <1>10 DEF RefInv, RefcountExact, ClosesOne

\* A process ends: handle_table_destroy closes its handles, each a reference.
LEMMA ExitStep ==
  ASSUME Shape, RefInv, NEW p \in alive, ExitProcess(p)
  PROVE  RefInv' /\ ClosesOne
<1> DEFINE tb == NewTable(MIN_HANDLE_ENTRIES)
           own(u) == Naming(table[p], u)
<1>1. p \in Tables /\ p # Global /\ table \in [Tables -> TableType]
  BY NameAssumption DEF Shape, Tables
<1>2. \A u \in Objects : Naming(tb, u) = {}
  BY NewTableEmpty
<1>3. tb \in TableType /\ table' = [table EXCEPT ![p] = tb]
  BY NewTableOK DEF TableOK, Filled, ExitProcess
<1> HIDE DEF tb
<1>4. /\ alive' = alive \ {p} /\ waiting' = waiting
      /\ refcount' = [u \in Objects |-> refcount[u] - Cardinality(own(u))]
  BY DEF ExitProcess
<1>5. ASSUME NEW u \in Objects
      PROVE  /\ References(table', u) = References(table, u) \ ({p} \X own(u))
             /\ {p} \X own(u) \subseteq References(table, u)
             /\ \A h \in References(table, u) : h \in {p} \X own(u) <=> h[1] = p
             /\ own(u) \in SUBSET Index
  <2>1. own(u) \in SUBSET Index
    BY DEF Naming
  <2>2. ASSUME NEW h \in Tables \X Index
        PROVE  /\ h \in References(table', u) <=> h \in References(table, u) /\ h[1] # p
               /\ h \in {p} \X own(u) <=> h \in References(table, u) /\ h[1] = p
    <3>1. h \in References(table', u) <=> IF h[1] = p THEN h[2] \in Naming(tb, u) ELSE h \in References(table, u)
      BY <1>1, <1>3, ReplacedReferences
    <3>2. h = <<h[1], h[2]>>
      OBVIOUS
    <3>3. h \in {p} \X own(u) <=> h[1] = p /\ h[2] \in own(u)
      BY <3>2
    <3>4. h[1] = p => (h[2] \in own(u) <=> h \in References(table, u))
      BY DEF References
    <3> QED
      BY <1>2, <3>1, <3>3, <3>4
  <2> HIDE DEF own
  <2>3. References(table', u) \subseteq Tables \X Index /\ References(table, u) \subseteq Tables \X Index
    BY DEF References
  <2>4. {p} \X own(u) \subseteq Tables \X Index
    BY <1>1, <2>1
  <2> QED
    BY <2>1, <2>2, <2>3, <2>4
<1>6. ASSUME NEW u \in Objects
      PROVE  Cardinality({p} \X own(u)) = Cardinality(own(u)) /\ Cardinality(own(u)) \in Nat
  BY <1>5, RowCount
<1> HIDE DEF own
<1>7. ASSUME NEW u \in Objects PROVE refcount'[u] = waiting'[u] + Cardinality(References(table', u))
  <2>1. Cardinality(References(table', u)) = Cardinality(References(table, u)) - Cardinality(own(u))
    <3>1. PICK A : A = References(table, u)
      OBVIOUS
    <3>2. PICK S : S = own(u)
      OBVIOUS
    <3>3. IsFiniteSet(A) /\ {p} \X S \subseteq A /\ S \in SUBSET Index
      BY <1>5, <3>1, <3>2, ReferencesFinite
    <3>4. Cardinality(A \ ({p} \X S)) = Cardinality(A) - Cardinality(S)
      BY <3>3, RowDropped
    <3>5. References(table', u) = A \ ({p} \X S)
      BY <1>5, <3>1, <3>2
    <3> QED
      BY <3>1, <3>2, <3>4, <3>5
  <2>2. /\ refcount[u] = waiting[u] + Cardinality(References(table, u)) /\ waiting[u] \in Nat
        /\ Cardinality(References(table, u)) \in Nat
    BY ReferencesFinite DEF RefInv, RefcountExact
  <2>3. refcount'[u] = refcount[u] - Cardinality(own(u)) /\ waiting'[u] = waiting[u]
    BY <1>4
  <2>4. Cardinality(own(u)) \in Nat
    BY <1>6
  <2> QED
    BY <2>1, <2>2, <2>3, <2>4
<1>8. refcount' \in [Objects -> Int] /\ waiting' \in [Objects -> Nat]
  <2>1. ASSUME NEW u \in Objects PROVE refcount[u] - Cardinality(own(u)) \in Int
    <3>1. refcount[u] \in Int
      BY DEF RefInv
    <3>2. Cardinality(own(u)) \in Nat
      BY <1>6
    <3> QED
      BY <3>1, <3>2
  <2>2. waiting' \in [Objects -> Nat]
    BY <1>4 DEF RefInv
  <2> QED
    BY <1>4, <2>1, <2>2
<1>9. ASSUME NEW u \in Objects, NEW g \in References(table', u) PROVE g[1] \in alive' \cup {Global}
  <2>1. g \in References(table, u) /\ g[1] # p
    BY <1>5
  <2>2. g[1] \in alive \cup {Global}
    BY <2>1 DEF RefInv
  <2> QED
    BY <1>4, <2>1, <2>2
<1>10. ASSUME NEW u \in Objects, NEW h \in References(table, u) \ References(table', u)
       PROVE  h[1] \notin alive' \cup {Global}
  <2>1. h[1] = p
    BY <1>5
  <2> QED
    BY <1>1, <1>4, <2>1
<1> QED
  BY <1>7, <1>8, <1>9, <1>10 DEF RefInv, RefcountExact, ClosesOne

\* A wait takes a reference or gives it back.
LEMMA WaitStep ==
  ASSUME RefInv, NEW o, UNCHANGED <<alive, table>>,
         \/ /\ waiting' = [waiting EXCEPT ![o] = waiting[o] + 1]
            /\ refcount' = [refcount EXCEPT ![o] = refcount[o] + 1]
         \/ /\ waiting[o] > 0
            /\ waiting' = [waiting EXCEPT ![o] = waiting[o] - 1]
            /\ refcount' = [refcount EXCEPT ![o] = refcount[o] - 1]
  PROVE  RefInv' /\ ClosesOne
<1>1. ASSUME NEW u \in Objects
      PROVE  /\ waiting'[u] \in Nat /\ refcount'[u] \in Int
             /\ refcount'[u] = waiting'[u] + Cardinality(References(table, u))
  <2>1. /\ refcount[u] = waiting[u] + Cardinality(References(table, u)) /\ waiting[u] \in Nat
        /\ Cardinality(References(table, u)) \in Nat
    BY ReferencesFinite DEF RefInv, RefcountExact
  <2>2. CASE u = o
    BY <2>1, <2>2 DEF RefInv
  <2>3. CASE u # o
    BY <2>1, <2>3 DEF RefInv
  <2> QED
    BY <2>2, <2>3
<1>2. refcount' \in [Objects -> Int] /\ waiting' \in [Objects -> Nat]
  BY <1>1 DEF RefInv
<1> QED
  BY <1>1, <1>2 DEF RefInv, RefcountExact, ClosesOne

\* dup_handle makes a handle and, with DUP_HANDLE_CLOSE_SOURCE, closes one.
LEMMA DuplicateStep ==
  ASSUME Shape, RefInv, CloseRemote = FALSE, NEW p \in alive, NEW T \in Tables, NEW i \in Index, Valid(T, i),
         NEW dst \in Tables, NEW attr \in Attrs,
         DupHandle(p, T, i, dst, attr) \/ DupHandleClose(p, T, i, dst, attr)
  PROVE  RefInv' /\ ClosesOne
<1> DEFINE o == table[T].entries[i].ptr
           dup == Duplicated(T, i, dst, attr)
<1>1. o \in Objects /\ i <= table[T].last /\ table \in [Tables -> TableType] /\ \A U \in Tables : TableOK(table[U])
  BY ValidNamesObject DEF Shape
<1>2. ASSUME NEW new \in dup
      PROVE  /\ new \in [Tables -> TableType] /\ \A U \in Tables : TableOK(new[U])
             /\ i <= new[T].last /\ new[T].entries[i].ptr = o
             /\ \E g : Gained(table, new, g, o) /\ g[1] \in alive \cup {Global}
  <2>1. /\ new \in [Tables -> TableType] /\ \A U \in Tables : TableOK(new[U])
        /\ i <= new[T].last /\ new[T].entries[i].ptr = o
        /\ dst \in alive \cup {Global} /\ \E j : Gained(table, new, <<dst, j>>, o)
    BY DuplicatedOK
  <2>2. \A j : <<dst, j>>[1] = dst
    OBVIOUS
  <2> QED
    BY <2>1, <2>2
<1>3. CASE DupHandle(p, T, i, dst, attr)
  <2>1. table' \in dup /\ alive' = alive /\ waiting' = waiting /\ refcount' = [refcount EXCEPT ![o] = refcount[o] + 1]
    BY <1>3 DEF DupHandle
  <2>2. PICK g : Gained(table, table', g, o) /\ g[1] \in alive \cup {Global}
    BY <1>2, <2>1
  <2> HIDE DEF o, dup
  <2> QED
    BY <1>1, <2>1, <2>2, GainStep
<1>4. CASE DupHandleClose(p, T, i, dst, attr)
  <2> DEFINE gained == IF dup = {} THEN 0 ELSE 1
  <2>1. /\ alive' = alive /\ waiting' = waiting /\ "protect" \notin table[T].entries[i].marks
        /\ refcount' = [refcount EXCEPT ![o] = refcount[o] + gained - 1]
    BY <1>4 DEF DupHandleClose, Marked
  <2>2. PICK new \in IF dup = {} THEN {table} ELSE dup : table' = [new EXCEPT ![T] = Closed(new[T], i)]
    BY <1>4 DEF DupHandleClose
  <2> HIDE DEF dup
  <2>3. \/ gained = 0 /\ new = table
        \/ gained = 1 /\ \E g : Gained(table, new, g, o) /\ g[1] \in alive \cup {Global}
    BY <1>2, <2>2
  <2>4. new \in [Tables -> TableType] /\ TableOK(new[T]) /\ i <= new[T].last /\ new[T].entries[i].ptr = o
    BY <1>1, <1>2, <2>2
  <2>5. Dropped(new, table', <<T, i>>, o)
    <3>1. Dropped(new, table', <<T, i>>, new[T].entries[i].ptr)
      BY <2>2, <2>4, ClosedReferences
    <3> QED
      BY <2>4, <3>1
  <2>6. "protect" \notin table[<<T, i>>[1]].entries[<<T, i>>[2]].marks /\ gained \in {0, 1}
    BY <2>1
  <2> HIDE DEF o, gained
  <2> QED
    BY <1>1, <2>1, <2>3, <2>5, <2>6, DropStep
<1> QED
  BY <1>3, <1>4

\* A request counts the references it makes and drops, and closes at most one handle.
LEMMA RequestReferences ==
  ASSUME Shape, RefInv, CloseRemote = FALSE, NEW p \in alive, Request(p)
  PROVE  RefInv' /\ ClosesOne
<1>1. /\ p \in Processes /\ p \in Tables /\ Global \in Tables /\ TableOK(table[p])
      /\ Usable(p) \subseteq Tables /\ Attrs \subseteq SUBSET AllMarks /\ table \in [Tables -> TableType]
  BY DEF Shape, Tables, Usable, Attrs, AllMarks
<1>2. ASSUME NEW T \in Usable(p), NEW i \in Handles(T) PROVE
        /\ T \in Tables /\ i \in Index /\ TableOK(table[T]) /\ i <= table[T].last
        /\ Valid(T, i) /\ Marked(T, i) \in SUBSET AllMarks /\ table[T].entries[i].ptr \in Objects
  <2>1. T \in Tables /\ i \in Index /\ Valid(T, i) /\ TableOK(table[T])
    BY <1>1 DEF Handles, Shape
  <2>2. i <= table[T].last /\ table[T].entries[i].ptr \in Objects
    BY <2>1, ValidNamesObject
  <2>3. table[T].entries[i] \in Entries
    BY <2>1, TableFacts DEF TableOK
  <2> QED
    BY <2>1, <2>2, <2>3 DEF Marked, Entries, AllMarks
<1>3. ASSUME NEW o \in Objects, NEW attr \in Attrs, CreateObject(p, o, attr) \/ OpenObject(p, o, attr)
      PROVE  RefInv' /\ ClosesOne
  <2>1. PICK i \in Index : /\ IsSlot(table[p], i) /\ CanAlloc(p, i)
                          /\ table' = [table EXCEPT ![p] = Alloc(table[p], i, o, attr)]
    BY <1>3 DEF CreateObject, OpenObject
  <2>2. alive' = alive /\ waiting' = waiting /\ refcount' = [refcount EXCEPT ![o] = refcount[o] + 1]
    BY <1>3 DEF CreateObject, OpenObject
  <2>3. attr \in SUBSET AllMarks
    BY <1>1
  <2>4. Gained(table, table', <<p, i>>, o)
    BY <1>1, <2>1, <2>3, AllocReferences DEF CanAlloc
  <2>5. <<p, i>>[1] \in alive \cup {Global}
    OBVIOUS
  <2> QED
    BY <2>2, <2>4, <2>5, GainStep
<1>4. ASSUME NEW T \in Usable(p), NEW i \in Handles(T), CloseHandle(p, T, i)
      PROVE  RefInv' /\ ClosesOne
  <2> DEFINE o == table[T].entries[i].ptr
  <2>1. /\ table' = [table EXCEPT ![T] = Closed(table[T], i)] /\ alive' = alive /\ waiting' = waiting
        /\ refcount' = [refcount EXCEPT ![o] = refcount[o] - 1]
        /\ "protect" \notin table[T].entries[i].marks
    BY <1>4 DEF CloseHandle, Marked
  <2>2. o \in Objects /\ T \in Tables /\ i \in Index /\ TableOK(table[T]) /\ i <= table[T].last
    BY <1>2
  <2>3. Dropped(table, table', <<T, i>>, o)
    BY <1>1, <2>1, <2>2, ClosedReferences
  <2>4. "protect" \notin table[<<T, i>>[1]].entries[<<T, i>>[2]].marks
    BY <2>1
  <2> HIDE DEF o
  <2>5. \A u \in Objects : refcount[u] \in Int
    BY DEF RefInv
  <2>6. refcount[o] - 1 = refcount[o] + 0 - 1
    BY <2>2, <2>5
  <2>7. refcount' = [refcount EXCEPT ![o] = refcount[o] + 0 - 1] /\ 0 \in {0, 1}
    BY <2>1, <2>6
  <2> QED
    BY <2>1, <2>2, <2>3, <2>4, <2>7, DropStep
<1>5. ASSUME NEW T \in Usable(p), NEW i \in Handles(T), BeginWait(p, T, i)
      PROVE  RefInv' /\ ClosesOne
  <2> DEFINE o == table[T].entries[i].ptr
  <2>1. /\ waiting' = [waiting EXCEPT ![o] = waiting[o] + 1] /\ refcount' = [refcount EXCEPT ![o] = refcount[o] + 1]
        /\ UNCHANGED <<alive, table>>
    BY <1>5 DEF BeginWait
  <2> HIDE DEF o
  <2> QED
    BY <1>1, <2>1, WaitStep
<1>6. ASSUME NEW T \in Usable(p), NEW i \in Handles(T), NEW marks \in SUBSET AllMarks,
             table' = [table EXCEPT ![T] = Remarked(table[T], i, marks)], UNCHANGED <<alive, refcount, waiting>>
      PROVE  RefInv' /\ ClosesOne
  <2> DEFINE tb == Remarked(table[T], i, marks)
  <2>1. T \in Tables /\ i \in Index /\ TableOK(table[T])
    BY <1>2
  <2>2. TableOK(tb) /\ \A u \in Objects : Naming(tb, u) = Naming(table[T], u)
    BY <2>1, RemarkedOK
  <2>3. tb \in TableType /\ table' = [table EXCEPT ![T] = tb]
    BY <1>6, <2>2 DEF TableOK, Filled
  <2> HIDE DEF tb
  <2>4. ASSUME NEW u \in Objects PROVE References(table', u) = References(table, u)
    <3>1. ASSUME NEW h \in Tables \X Index PROVE h \in References(table', u) <=> h \in References(table, u)
      <4>1. h \in References(table', u) <=> IF h[1] = T THEN h[2] \in Naming(tb, u) ELSE h \in References(table, u)
        BY <1>1, <2>1, <2>3, ReplacedReferences
      <4> QED
        BY <2>2, <4>1 DEF References
    <3>2. References(table', u) \subseteq Tables \X Index /\ References(table, u) \subseteq Tables \X Index
      BY DEF References
    <3> QED
      BY <3>1, <3>2
  <2> QED
    BY <1>6, <2>4, SameStep
<1>7. ASSUME NEW T \in Usable(p), NEW i \in Handles(T), NEW flags \in SUBSET {"inherit", "protect"},
             SetHandleInfo(p, T, i, flags)
      PROVE  RefInv' /\ ClosesOne
  <2>1. flags \cup (Marked(T, i) \cap {"fd"}) \in SUBSET AllMarks
    BY DEF AllMarks
  <2> QED
    BY <1>6, <1>7, <2>1 DEF SetHandleInfo
<1>8. ASSUME NEW i \in Handles(p), CacheFd(p, i) \/ FlushFd(p, i)
      PROVE  RefInv' /\ ClosesOne
  <2>1. p \in Usable(p) /\ Marked(p, i) \in SUBSET AllMarks
    BY <1>2 DEF Usable
  <2>2. Marked(p, i) \cup {"fd"} \in SUBSET AllMarks /\ Marked(p, i) \ {"fd"} \in SUBSET AllMarks
    BY <2>1 DEF AllMarks
  <2> QED
    BY <1>6, <1>8, <2>1, <2>2 DEF CacheFd, FlushFd
<1>9. ASSUME NEW T \in Usable(p), NEW i \in Handles(T), NEW dst \in Tables, NEW attr \in Attrs,
             DupHandle(p, T, i, dst, attr) \/ DupHandleClose(p, T, i, dst, attr)
      PROVE  RefInv' /\ ClosesOne
  BY <1>2, <1>9, DuplicateStep
<1>10. ASSUME NEW q \in Processes, InheritProcess(p, q)
       PROVE  RefInv' /\ ClosesOne
  BY <1>10, InheritStep
<1>11. CASE ExitProcess(p)
  BY <1>11, ExitStep
<1> QED
  BY <1>3, <1>4, <1>5, <1>7, <1>8, <1>9, <1>10, <1>11, Zenon DEF Request

\* Every step counts the references it makes and drops, and closes at most one handle.
LEMMA RefStep ==
  ASSUME Shape, RefInv, CloseRemote = FALSE, Next
  PROVE  RefInv' /\ ClosesOne
<1>1. ASSUME NEW p \in alive, Request(p) PROVE RefInv' /\ ClosesOne
  BY <1>1, RequestReferences
<1>2. ASSUME NEW q \in Processes, StartProcess(q) PROVE RefInv' /\ ClosesOne
  <2>1. /\ table' = [table EXCEPT ![q] = NewTable(MIN_HANDLE_ENTRIES)] /\ alive' = alive \cup {q}
        /\ UNCHANGED <<refcount, waiting>> /\ q \notin alive
        /\ q \in Tables /\ q # Global /\ table \in [Tables -> TableType]
    BY <1>2, NameAssumption DEF StartProcess, Shape, Tables
  <2>2. NewTable(MIN_HANDLE_ENTRIES) \in TableType
    BY NewTableOK DEF TableOK, Filled
  <2>3. ASSUME NEW u \in Objects PROVE References(table', u) = References(table, u)
    <3>1. ASSUME NEW h \in Tables \X Index PROVE h \in References(table', u) <=> h \in References(table, u)
      <4>1. h \in References(table', u) <=>
              IF h[1] = q THEN h[2] \in Naming(NewTable(MIN_HANDLE_ENTRIES), u) ELSE h \in References(table, u)
        BY <2>1, <2>2, ReplacedReferences
      <4>2. h[1] = q => h \notin References(table, u)
        BY <2>1 DEF RefInv
      <4> QED
        BY <4>1, <4>2, NewTableEmpty
    <3>2. References(table', u) \subseteq Tables \X Index /\ References(table, u) \subseteq Tables \X Index
      BY DEF References
    <3> QED
      BY <3>1, <3>2
  <2> QED
    BY <2>1, <2>3, SameStep
<1>3. ASSUME NEW o \in Objects, EndWait(o) PROVE RefInv' /\ ClosesOne
  BY <1>3, WaitStep DEF EndWait
<1> QED
  BY <1>1, <1>2, <1>3 DEF Next

\* The references are counted for ever.
THEOREM RefInvariant ==
  ASSUME CloseRemote = FALSE
  PROVE  Spec => []RefInv
<1>1. ASSUME Init PROVE RefInv
  <2>1. ASSUME NEW u PROVE References(table, u) = {}
    <3>1. \A h \in Tables \X Index : table[h[1]] = NewTable(MIN_HANDLE_ENTRIES)
      BY <1>1 DEF Init
    <3> QED
      BY <3>1, NewTableEmpty DEF References
  <2>2. Cardinality({}) = 0
    BY FS_EmptySet
  <2> QED
    BY <1>1, <2>1, <2>2 DEF Init, RefInv, RefcountExact
<1>2. Shape /\ RefInv /\ [Next]_vars => RefInv'
  <2>1. ASSUME RefInv, UNCHANGED vars PROVE RefInv'
    BY <2>1 DEF vars, RefInv, RefcountExact
  <2> QED
    BY <2>1, RefStep
<1> QED
  BY <1>1, <1>2, ShapeInvariant, PTL DEF Spec

\* grab_object and release_object: an object has exactly one reference for each handle, in
\* any table, and for each wait, so that it lives as long as one of them.
THEOREM RefcountExactHolds ==
  ASSUME CloseRemote = FALSE
  PROVE  Spec => []RefcountExact
<1>1. RefInv => RefcountExact
  BY DEF RefInv
<1> QED
  BY <1>1, RefInvariant, PTL

\* The types of the tables and that no count is negative.
THEOREM TypeOKHolds ==
  ASSUME CloseRemote = FALSE
  PROVE  Spec => []TypeOK
<1>1. ASSUME Shape, RefInv PROVE TypeOK
  <2>1. ASSUME NEW o \in Objects PROVE refcount[o] \in Nat
    <3>1. /\ refcount[o] = waiting[o] + Cardinality(References(table, o)) /\ waiting[o] \in Nat
          /\ Cardinality(References(table, o)) \in Nat
      BY <1>1, ReferencesFinite DEF RefInv, RefcountExact
    <3> QED
      BY <3>1
  <2>2. refcount \in [Objects -> Nat]
    BY <1>1, <2>1 DEF RefInv
  <2> QED
    BY <1>1, <2>2 DEF TypeOK, Shape, RefInv, TableType
<1> QED
  BY <1>1, ShapeInvariant, RefInvariant, PTL

\* However alloc_entry, shrink_handle_table and copy_handle_table move the tables, a handle
\* of a process that lives on names the same object until a request closes it: one handle
\* in one request, and never a protected one.
THEOREM HandleStableHolds ==
  ASSUME CloseRemote = FALSE
  PROVE  Spec => HandleStable
<1> DEFINE lost == {h \in Tables \X Index :
                    /\ h[2] <= table[h[1]].last /\ table[h[1]].entries[h[2]].ptr \in Objects
                    /\ h[1] \in alive' \cup {Global}
                    /\ \/ h[2] > table'[h[1]].last
                       \/ table'[h[1]].entries[h[2]].ptr # table[h[1]].entries[h[2]].ptr}
           stable == \A h \in lost : "protect" \notin table[h[1]].entries[h[2]].marks /\ lost = {h}
<1>1. ASSUME Shape, Shape', ClosesOne PROVE stable
  <2>1. PICK g : \A u \in Objects : \A h \in References(table, u) \ References(table', u) :
                   h[1] \notin alive' \cup {Global} \/ (h = g /\ "protect" \notin table[h[1]].entries[h[2]].marks)
    BY <1>1 DEF ClosesOne
  <2>2. ASSUME NEW h \in lost PROVE h = g /\ "protect" \notin table[h[1]].entries[h[2]].marks
    <3> DEFINE u == table[h[1]].entries[h[2]].ptr
    <3>1. h \in Tables \X Index /\ u \in Objects /\ h[2] <= table[h[1]].last /\ h[1] \in alive' \cup {Global}
          /\ (h[2] > table'[h[1]].last \/ table'[h[1]].entries[h[2]].ptr # u)
      OBVIOUS
    <3>2. h \in References(table, u)
      BY <3>1 DEF References, Naming
    <3>3. h[2] \in Int /\ table'[h[1]].last \in Int
      <4>1. h[2] \in Index /\ h[1] \in Tables
        BY <3>1
      <4>2. TableOK(table[h[1]])' 
        BY <1>1, <4>1 DEF Shape
      <4>3. table'[h[1]].last \in -1..(MaxCount - 1)
        BY <4>2 DEF TableOK, Filled, TableType
      <4> QED
        BY <4>1, <4>3, SizeAssumption DEF Index
    <3>4. h \notin References(table', u)
      BY <3>1, <3>3 DEF References, Naming
    <3> HIDE DEF u
    <3> QED
      BY <2>1, <3>1, <3>2, <3>4
  <2> HIDE DEF lost
  <2> QED
    BY <2>2
<1>2. ASSUME UNCHANGED vars, Shape PROVE stable
  <2>1. table' = table
    BY <1>2 DEF vars
  <2>2. ASSUME NEW h \in lost PROVE FALSE
    <3>1. h[2] \in Index /\ h[1] \in Tables
      OBVIOUS
    <3>2. table[h[1]].last \in Int /\ h[2] \in Int
      BY <1>2, <3>1, SizeAssumption DEF Shape, TableType, Index
    <3> QED
      BY <2>1, <3>2
  <2> QED
    BY <2>2
<1>3. Shape /\ Shape' /\ RefInv /\ [Next]_vars => [stable]_vars
  BY <1>1, RefStep
<1>4. stable <=> StableStep
  BY DEF StableStep
<1>5. Shape /\ Shape' /\ RefInv /\ [Next]_vars => [StableStep]_vars
  BY <1>3, <1>4
<1> QED
  BY <1>5, ShapeInvariant, RefInvariant, PTL DEF Spec, HandleStable
=============================================================================
