----------------------------- MODULE HandleTable -----------------------------
(***************************************************************************)
(* The handle tables of the processes and the reference counts of the      *)
(* objects they name (server/handle.c and server/object.c).                *)
(*                                                                         *)
(* A table is an array of entries that doubles when it is full and is      *)
(* halved when its last used entry falls below a quarter.  Memory that     *)
(* realloc adds is not initialised.  Every action is one request, which    *)
(* the server handles from beginning to end.  An object is also kept alive *)
(* by the waits in progress on it.  Access rights are left out, and so are *)
(* the few objects that refuse to be closed; a table that cannot grow any  *)
(* more stands for every failed allocation.                                *)
(***************************************************************************)
EXTENDS Integers, FiniteSets

CONSTANTS
  Processes, Objects,
  Named,               \* the objects that have a name in the object namespace
  Global,              \* the global table
  NoObject,            \* entry->ptr is NULL
  Junk,                \* entry->ptr was never initialised
  MIN_HANDLE_ENTRIES,
  MaxCount,            \* bound: the size a table can grow to
  MaxWaits,            \* bound: waits in progress on one object
  MaxRefs,             \* bound: references to one object
  Marks,               \* bound: the combinations of marks an entry has
  CloseRemote          \* may a process close a handle of another one whose fd is cached

Tables == Processes \cup {Global}

ASSUME NameAssumption ==
  /\ IsFiniteSet(Processes) /\ Global \notin Processes
  /\ Named \subseteq Objects
  /\ NoObject \notin Objects /\ Junk \notin Objects /\ NoObject # Junk
ASSUME SizeAssumption ==
  /\ MIN_HANDLE_ENTRIES \in Nat \ {0}
  /\ MaxCount \in Nat /\ MaxCount >= MIN_HANDLE_ENTRIES
  /\ MaxWaits \in Nat /\ MaxRefs \in Nat
  /\ CloseRemote \in BOOLEAN

VARIABLES
  alive,       \* the processes that have a handle table
  table,       \* process->handles, and global_table
  refcount,    \* obj->refcount, 0 when the object does not exist
  waiting      \* the waits in progress on each object

vars == <<alive, table, refcount, waiting>>

Index == 0..(MaxCount - 1)

\* An entry: the object, and which of its marks are set: RESERVED_INHERIT and
\* RESERVED_CLOSE_PROTECT of its access, and a cached fd.
Entry(o, marks) == [ptr |-> o, marks |-> marks]
Entries == [ptr : Objects \cup {NoObject, Junk}, marks : SUBSET {"inherit", "protect", "fd"}]
Unset == Entry(Junk, {})        \* memory from malloc or realloc
Empty == Entry(NoObject, {})    \* ptr is NULL; the rest is never read

\* alloc_handle_table
NewTable(count) ==
  [count |-> count, last |-> -1, free |-> 0, entries |-> [i \in Index |-> Unset]]

Init ==
  /\ alive = {}
  /\ table = [T \in Tables |-> NewTable(MIN_HANDLE_ENTRIES)]
  /\ refcount = [o \in Objects |-> 0]
  /\ waiting = [o \in Objects |-> 0]

-----------------------------------------------------------------------------
(***************************************************************************)
(* What handle.c does to one table tb.                                     *)
(***************************************************************************)
\* alloc_entry looks for a free entry from tb.free on, and else takes the one after the last.
IsSlot(tb, i) ==
  /\ i >= tb.free
  /\ \A j \in tb.free..tb.last : tb.entries[j].ptr = NoObject => i <= j
  /\ \/ i <= tb.last /\ tb.entries[i].ptr = NoObject
     \/ /\ i > tb.last /\ (i = tb.free \/ i = tb.last + 1)
        /\ \A j \in tb.free..tb.last : tb.entries[j].ptr # NoObject

\* Mutant: free is set one too far, past the entry that is next.
AllocNext(tb, i, o, attr) ==
  [count   |-> IF i >= tb.count THEN 2 * tb.count ELSE tb.count,
   last    |-> IF i > tb.last THEN i ELSE tb.last,
   free    |-> i + 2,
   entries |-> [tb.entries EXCEPT ![i] = Entry(o, attr)]]

\* alloc_entry in the slot i, with grow_handle_table.
Alloc(tb, i, o, attr) ==
  [count   |-> IF i >= tb.count THEN 2 * tb.count ELSE tb.count,
   last    |-> IF i > tb.last THEN i ELSE tb.last,
   free    |-> i + 1,
   entries |-> [tb.entries EXCEPT ![i] = Entry(o, attr)]]

\* shrink_handle_table: the last used entry, and the table cut down to size.
IsLastUsed(tb, last) ==
  /\ last = -1 \/ (last \in 0..tb.last /\ tb.entries[last].ptr # NoObject)
  /\ \A j \in 0..tb.last : j > last => tb.entries[j].ptr = NoObject
LastUsedEntry(tb) == CHOOSE l \in -1..tb.last : IsLastUsed(tb, l)

Cut(tb, last, count) ==
  [count |-> count, last |-> last, free |-> tb.free,
   entries |-> [i \in Index |-> IF i < count THEN tb.entries[i] ELSE Unset]]

\* Mutant: no table is too small to shrink.
ShrunkToNothing(tb) ==
  LET last == LastUsedEntry(tb)
  IN Cut(tb, last, IF last < tb.count \div 4 THEN tb.count \div 2 ELSE tb.count)

Shrunk(tb) ==
  LET last == LastUsedEntry(tb)
  IN Cut(tb, last, IF last < tb.count \div 4 /\ tb.count >= 2 * MIN_HANDLE_ENTRIES
                   THEN tb.count \div 2 ELSE tb.count)

\* Mutant: the entries that are not inherited are copied all the same.
InheritedAll(tb) == Shrunk([tb EXCEPT !.free = 0])

\* copy_handle_table
Inherited(tb) ==
  Shrunk([count |-> tb.count, last |-> tb.last, free |-> 0,
          entries |-> [i \in Index |->
             IF i > tb.last THEN Unset
             ELSE IF "inherit" \in tb.entries[i].marks
             THEN Entry(tb.entries[i].ptr, tb.entries[i].marks \ {"fd"}) ELSE Empty]])

\* Mutant: free is not brought back.
ClosedKeepsFree(tb, i) ==
  IF i = tb.last THEN Shrunk([tb EXCEPT !.entries[i] = Empty]) ELSE [tb EXCEPT !.entries[i] = Empty]
\* Mutant: the table is not shrunk when its last entry goes.
ClosedNoShrink(tb, i) ==
  [tb EXCEPT !.entries[i] = Empty, !.free = IF i < tb.free THEN i ELSE tb.free]

\* close_handle, once the entry is found closable
Closed(tb, i) ==
  LET cleared == [count |-> tb.count, last |-> tb.last,
                  free |-> IF i < tb.free THEN i ELSE tb.free,
                  entries |-> [tb.entries EXCEPT ![i] = Empty]]
  IN IF i = tb.last THEN Shrunk(cleared) ELSE cleared

\* close_handle when the fd is cached and the caller cannot close it: it returns early.
ClosedEarly(tb, i) == [tb EXCEPT !.entries[i] = Empty]

\* The flags of an entry, or its fd, change.
Remarked(tb, i, marks) ==
  [count |-> tb.count, last |-> tb.last, free |-> tb.free,
   entries |-> [tb.entries EXCEPT ![i] = Entry(tb.entries[i].ptr, marks)]]

-----------------------------------------------------------------------------
\* get_handle: the handle i of the table T names an object.
Valid(T, i) == i <= table[T].last /\ table[T].entries[i].ptr # NoObject

Marked(T, i) == table[T].entries[i].marks

\* The tables whose handles the process can use.
Usable(p) == {p, Global}

\* The attributes a new handle can have: OBJ_INHERIT or none.
Attrs == {{}, {"inherit"}}

CanAlloc(T, i) == i < table[T].count \/ 2 * table[T].count <= MaxCount

\* alloc_object, then alloc_handle; the creator's own reference goes.
CreateObject(p, o, attr) ==
  /\ p \in alive /\ refcount[o] = 0
  /\ \E i \in Index : IsSlot(table[p], i) /\ CanAlloc(p, i)
                      /\ table' = [table EXCEPT ![p] = Alloc(@, i, o, attr)]
  /\ refcount' = [refcount EXCEPT ![o] = 1]
  /\ UNCHANGED <<alive, waiting>>

\* open_object
OpenObject(p, o, attr) ==
  /\ p \in alive /\ o \in Named /\ refcount[o] \in 1..(MaxRefs - 1)
  /\ \E i \in Index : IsSlot(table[p], i) /\ CanAlloc(p, i)
                      /\ table' = [table EXCEPT ![p] = Alloc(@, i, o, attr)]
  /\ refcount' = [refcount EXCEPT ![o] = @ + 1]
  /\ UNCHANGED <<alive, waiting>>

\* Mutant: a protected handle is closed all the same.
CloseHandleProtected(p, T, i) ==
  /\ p \in alive /\ T \in Usable(p) /\ Valid(T, i)
  /\ table' = [table EXCEPT ![T] = Closed(@, i)]
  /\ refcount' = [refcount EXCEPT ![table[T].entries[i].ptr] = @ - 1]
  /\ UNCHANGED <<alive, waiting>>

\* The request close_handle: the caller is told the cached fd and closes it.
CloseHandle(p, T, i) ==
  /\ p \in alive /\ T \in Usable(p) /\ Valid(T, i) /\ "protect" \notin Marked(T, i)
  /\ table' = [table EXCEPT ![T] = Closed(@, i)]
  /\ refcount' = [refcount EXCEPT ![table[T].entries[i].ptr] = @ - 1]
  /\ UNCHANGED <<alive, waiting>>

\* set_handle_flags
SetHandleInfo(p, T, i, flags) ==
  /\ p \in alive /\ T \in Usable(p) /\ Valid(T, i)
  /\ flags \cup (Marked(T, i) \cap {"fd"}) \in Marks
  /\ table' = [table EXCEPT ![T] = Remarked(@, i, flags \cup (Marked(T, i) \cap {"fd"}))]
  /\ UNCHANGED <<alive, refcount, waiting>>

\* set_handle_unix_fd and flush_cached_fd; there is no cache for global handles.
CacheFd(p, i) ==
  /\ p \in alive /\ Valid(p, i) /\ Marked(p, i) \cup {"fd"} \in Marks
  /\ table' = [table EXCEPT ![p] = Remarked(@, i, Marked(p, i) \cup {"fd"})]
  /\ UNCHANGED <<alive, refcount, waiting>>

FlushFd(p, i) ==
  /\ p \in alive /\ Valid(p, i)
  /\ table' = [table EXCEPT ![p] = Remarked(@, i, Marked(p, i) \ {"fd"})]
  /\ UNCHANGED <<alive, refcount, waiting>>

\* The tables after duplicate_handle, none if there is no slot or no table: dst is a process, or Global
\* for DUP_HANDLE_MAKE_GLOBAL, and a global handle is never inherited.
Duplicated(T, i, dst, attr) ==
  {[table EXCEPT ![dst] = Alloc(@, j, table[T].entries[i].ptr, IF dst = Global THEN {} ELSE attr)]
     : j \in {k \in Index : dst \in alive \cup {Global} /\ IsSlot(table[dst], k) /\ CanAlloc(dst, k)}}

\* dup_handle of a handle of src, by any process, without DUP_HANDLE_CLOSE_SOURCE.
DupHandle(src, T, i, dst, attr) ==
  /\ src \in alive /\ T \in Usable(src)
  /\ Valid(T, i) /\ refcount[table[T].entries[i].ptr] < MaxRefs
  /\ table' \in Duplicated(T, i, dst, attr)
  /\ refcount' = [refcount EXCEPT ![table[T].entries[i].ptr] = @ + 1]
  /\ UNCHANGED <<alive, waiting>>

\* With DUP_HANDLE_CLOSE_SOURCE: the source is closed no matter what happened.  Only a
\* process that closes a handle of its own can be told the cached fd.
DupHandleClose(src, T, i, dst, attr) ==
  /\ src \in alive /\ T \in Usable(src)
  /\ Valid(T, i) /\ "protect" \notin Marked(T, i)
  /\ LET dup == Duplicated(T, i, dst, attr)
         o == table[T].entries[i].ptr
         gained == IF dup = {} THEN 0 ELSE 1
         early == CloseRemote /\ alive # {src} /\ "fd" \in Marked(T, i) /\ refcount[o] < MaxRefs
     IN \E new \in IF dup = {} THEN {table} ELSE dup, remote \in {FALSE, early} :
          /\ table' = [new EXCEPT ![T] = IF remote THEN ClosedEarly(@, i) ELSE Closed(@, i)]
          /\ refcount' = [refcount EXCEPT ![o] = @ + gained - (IF remote THEN 0 ELSE 1)]
  /\ UNCHANGED <<alive, waiting>>

\* create_process without a parent or without inherit_all.
StartProcess(q) ==
  /\ q \in Processes \ alive
  /\ alive' = alive \cup {q}
  /\ table' = [table EXCEPT ![q] = NewTable(MIN_HANDLE_ENTRIES)]
  /\ UNCHANGED <<refcount, waiting>>

\* The handles of a table that name the object.
Naming(tb, o) == {i \in Index : i <= tb.last /\ tb.entries[i].ptr = o}

\* create_process with inherit_all: a copy of the handles that the parent lets it inherit.
InheritProcess(p, q) ==
  /\ p \in alive /\ q \in Processes \ alive
  /\ alive' = alive \cup {q}
  /\ table' = [table EXCEPT ![q] = Inherited(table[p])]
  /\ refcount' = [o \in Objects |-> refcount[o] +
                    Cardinality({i \in Naming(table[p], o) : "inherit" \in Marked(p, i)})]
  /\ \A o \in Objects : refcount'[o] <= MaxRefs
  /\ UNCHANGED waiting

\* process_killed: handle_table_destroy.
ExitProcess(p) ==
  /\ p \in alive
  /\ alive' = alive \ {p}
  /\ table' = [table EXCEPT ![p] = NewTable(MIN_HANDLE_ENTRIES)]
  /\ refcount' = [o \in Objects |-> refcount[o] - Cardinality(Naming(table[p], o))]
  /\ UNCHANGED waiting

\* wait_on takes a reference for the wait, end_wait gives it back.
BeginWait(p, T, i) ==
  /\ p \in alive /\ T \in Usable(p) /\ Valid(T, i)
  /\ LET o == table[T].entries[i].ptr
     IN /\ waiting[o] < MaxWaits /\ refcount[o] < MaxRefs
        /\ waiting' = [waiting EXCEPT ![o] = @ + 1]
        /\ refcount' = [refcount EXCEPT ![o] = @ + 1]
  /\ UNCHANGED <<alive, table>>

EndWait(o) ==
  /\ waiting[o] > 0
  /\ waiting' = [waiting EXCEPT ![o] = @ - 1]
  /\ refcount' = [refcount EXCEPT ![o] = @ - 1]
  /\ UNCHANGED <<alive, table>>

Handles(T) == {i \in Index : Valid(T, i)}

Request(p) ==
  \/ \E o \in Objects, attr \in Attrs : CreateObject(p, o, attr) \/ OpenObject(p, o, attr)
  \/ \E T \in Usable(p) : \E i \in Handles(T) :
       \/ CloseHandle(p, T, i) \/ BeginWait(p, T, i)
       \/ \E flags \in SUBSET {"inherit", "protect"} : SetHandleInfo(p, T, i, flags)
       \/ \E dst \in Tables, attr \in Attrs :
            DupHandle(p, T, i, dst, attr) \/ DupHandleClose(p, T, i, dst, attr)
  \/ \E i \in Handles(p) : CacheFd(p, i) \/ FlushFd(p, i)
  \/ \E q \in Processes : InheritProcess(p, q)
  \/ ExitProcess(p)

Next ==
  \/ \E p \in alive : Request(p)
  \/ \E q \in Processes : StartProcess(q)
  \/ \E o \in Objects : EndWait(o)

Spec == Init /\ [][Next]_vars

-----------------------------------------------------------------------------
(***************************************************************************)
(* What the tables promise.                                                *)
(***************************************************************************)
TypeOK ==
  /\ alive \subseteq Processes
  /\ table \in [Tables -> [count : 1..MaxCount, last : -1..(MaxCount - 1), free : 0..MaxCount,
                           entries : [Index -> Entries]]]
  /\ refcount \in [Objects -> Nat]
  /\ waiting \in [Objects -> Nat]

\* get_handle never reads an entry that nobody initialised: growing never leaves a hole
\* between the entries in use and the new one.
Initialised ==
  \A T \in Tables :
    /\ table[T].last < table[T].count
    /\ table[T].free <= table[T].last + 1
    /\ \A i \in Index : i <= table[T].last => table[T].entries[i].ptr # Junk

\* table->free, "first entry that may be free": every entry below it is in use, so that
\* alloc_entry finds the first free one.
FirstFree ==
  \A T \in Tables : \A i \in Index :
    i < table[T].free => i <= table[T].last /\ table[T].entries[i].ptr \in Objects

\* table->last, "last used entry": it is in use and none after it is.
LastUsed ==
  \A T \in Tables :
    table[T].last >= 0 => table[T].entries[table[T].last].ptr # NoObject

\* The handles that name the object, in any table.
References(tab, o) == {h \in Tables \X Index : h[2] \in Naming(tab[h[1]], o)}

\* An object has one reference for each handle and each wait: it exists as long as there
\* is one and goes with the last ("nobody can be in the wait queue").
RefcountExact ==
  \A o \in Objects :
    refcount[o] = waiting[o] + Cardinality(References(table, o))

\* A step loses at most one handle of the processes that live on, and no protected one.
StableStep ==
  LET lost == {h \in Tables \X Index :
                 /\ h[2] <= table[h[1]].last /\ table[h[1]].entries[h[2]].ptr \in Objects
                 /\ h[1] \in alive' \cup {Global}
                 /\ \/ h[2] > table'[h[1]].last
                    \/ table'[h[1]].entries[h[2]].ptr # table[h[1]].entries[h[2]].ptr}
  IN \A h \in lost : "protect" \notin table[h[1]].entries[h[2]].marks /\ lost = {h}

\* However the tables grow, shrink and move, a handle names the same object until it is
\* closed: a request closes at most one handle, never a protected one.
HandleStable == [][StableStep]_vars
=============================================================================
