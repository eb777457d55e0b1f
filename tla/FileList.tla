------------------------------ MODULE FileList -------------------------------
(* The "Files" tab (src/internal/client/ui.go): the rows of the list store, *)
(* ui.fileMap, which keeps a file from being listed twice, and the totals   *)
(* of the info box, kept up to date by addition and subtraction. Handlers   *)
(* run to completion on GTK's main loop, one action each.                   *)
(*                                                                          *)
(* Starting the program again activates the application that runs: a second *)
(* window, with a list store of its own, over the one UIStatus. Handlers of *)
(* every window look widgets up in ui.builder, that is in the last window.  *)
(* A ...Bug definition is a wrong version of the one below it.              *)
EXTENDS Integers, FiniteSetsExt, SequencesExt

CONSTANTS
    Paths,      \* full paths of files the user may choose
    Sizes,      \* their sizes, which may change between two additions
    NoPath,     \* the path of a row that was appended and not set
    MaxWindows  \* how often the application is activated

ASSUME FileListAssumption ==
    /\ IsFiniteSet(Paths) /\ NoPath \notin Paths
    /\ Sizes \subseteq Nat /\ MaxWindows \in Nat \ {0}

VARIABLES
    list,       \* rows of the last window and of those before it, fileMap,
                \* totalFileCount and totalFileSize
    failed      \* files whose Stat or row failed at some time (history)

vars == <<list, failed>>

Row == [path : Paths \cup {NoPath}, size : Nat]

TypeOK ==
    /\ list \in [rows : Seq(Row), before : Seq(Seq(Row)), map : SUBSET Paths,
                count : Nat, size : Nat]
    /\ failed \subseteq Paths

Init ==
    /\ list = [rows |-> <<>>, before |-> <<>>, map |-> {}, count |-> 0, size |-> 0]
    /\ failed = {}

-----------------------------------------------------------------------------
\* What becomes of a file that is not in the map: os.Stat fails, the new row
\* cannot be set, or its size.
NoStat   == -1
NotSet   == -2
Outcomes == Sizes \cup {NoStat, NotSet}

\* Only a row that was set is counted.
CountedBug(l, out) == [l EXCEPT !.count = @ + 1,
                                !.size = IF out = NotSet THEN @ ELSE @ + out]
Counted(l, out) == IF out = NotSet THEN l
                   ELSE [l EXCEPT !.count = @ + 1, !.size = @ + out]

NewRow(p, out) == IF out = NotSet THEN [path |-> NoPath, size |-> 0]
                                   ELSE [path |-> p, size |-> out]

Known(l, p) == p \in l.map

\* One round of the loop of addFilesToListStore.
AddFile(l, p, out) ==
    IF Known(l, p) THEN l
    ELSE LET seen == [l EXCEPT !.map = @ \cup {p}]
         IN  IF out = NoStat THEN seen
             ELSE Counted([seen EXCEPT !.rows = Append(@, NewRow(p, out))], out)

\* The loop of addFilesToListStore: the list after its first n rounds.
AddAll(l, names, out) ==
    LET after[n \in 0 .. Len(names)] ==
            IF n = 0 THEN l ELSE AddFile(after[n - 1], names[n], out[names[n]])
    IN  after[Len(names)]

\* addFilesToListStore with the names the file chooser returned.
AddFiles(names, out) ==
    /\ list' = AddAll(list, names, out)
    /\ failed' = failed \cup {p \in ToSet(names) \ list.map :
                                  out[p] \in {NoStat, NotSet}}

\* delete(ui.fileMap, fullPath)
ForgottenBug(l, p) == l.map
Forgotten(l, p)    == l.map \ {p}

\* value.GetString fails on a row without a path, which is passed over.
PassedOverBug(row) == FALSE
PassedOver(row)    == row.path = NoPath

\* One round of the loop of removeSelectedFiles; GetIter fails on a position
\* the store does not have.
RemoveRow(l, i) ==
    IF i \notin DOMAIN l.rows \/ PassedOver(l.rows[i]) THEN l
    ELSE [l EXCEPT !.rows  = RemoveAt(@, i),
                   !.map   = Forgotten(l, l.rows[i].path),
                   !.count = @ - 1,
                   !.size  = @ - l.rows[i].size]

\* "Reverse is called to preserve the head of the linked list for iter": a
\* tree path is a position, so the last row goes first.
RemovalOrderBug(i, j) == i < j
RemovalOrder(i, j)    == i > j

\* The members of a set of positions, sorted.
SortedBy(Before(_, _), S) ==
    {s \in SetToSeqs(S) : \A m, n \in DOMAIN s : m < n => Before(s[m], s[n])}

\* The loop of removeSelectedFiles.
RemoveAll(l, order) ==
    LET after[n \in 0 .. Len(order)] ==
            IF n = 0 THEN l ELSE RemoveRow(after[n - 1], order[n])
    IN  after[Len(order)]

RemoveSelected(selected) ==
    /\ \E order \in SortedBy(RemovalOrder, selected) : list' = RemoveAll(list, order)
    /\ UNCHANGED failed

\* The Delete key in some window: the positions are those of its tree view,
\* the store is that of the last window.
DeletePressed ==
    \E shown \in {list.rows} \cup ToSet(list.before) :
        \E selected \in SUBSET DOMAIN shown : RemoveSelected(selected)

\* The application is activated again: a new GtkBuilder, the UIStatus stays.
ActivatedBug(l) == [l EXCEPT !.before = Append(@, l.rows), !.rows = <<>>, !.map = {}]
Activated(l)    == [l EXCEPT !.before = Append(@, l.rows), !.rows = <<>>]

Activate ==
    /\ Len(list.before) + 1 < MaxWindows
    /\ list' = Activated(list)
    /\ UNCHANGED failed

\* GTK sorts the rows by the column whose header the user clicks. (The order
\* of the rows of an earlier window is read by nothing.)
Sorted ==
    /\ \E order \in SetToSeqs(DOMAIN list.rows) :
           list' = [list EXCEPT !.rows = [i \in DOMAIN @ |-> @[order[i]]]]
    /\ UNCHANGED failed

Next ==
    \/ \E names \in UNION {SetToSeqs(S) : S \in SUBSET Paths \ {{}}} :
           \E out \in [ToSet(names) -> Outcomes] : AddFiles(names, out)
    \/ DeletePressed
    \/ Sorted
    \/ Activate

Spec == Init /\ [][Next]_vars

-----------------------------------------------------------------------------
Stores == Append(list.before, list.rows)

\* The rows of every window that show a file.
Listed == {at \in UNION {{w} \X DOMAIN Stores[w] : w \in DOMAIN Stores} :
              Stores[at[1]][at[2]].path # NoPath}
RowAt(at) == Stores[at[1]][at[2]]

\* The totals the info box shows are those of the rows of all windows, after
\* any sequence of additions, failed or not, removals and activations.
TotalsMatch ==
    /\ list.count = Cardinality(Listed)
    /\ list.size = MapThenSumSet(LAMBDA at : RowAt(at).size, Listed)

\* "File is already added" (ui.go:572): no file is listed twice, in one
\* window or in two.
ListedOnce ==
    \A a1, a2 \in Listed : RowAt(a1).path = RowAt(a2).path => a1 = a2

\* A file that was removed can be added again: the map holds no file beside
\* those listed in some window, except one whose addition failed.
RemovedMayReturn == list.map \ {RowAt(at).path : at \in Listed} \subseteq failed

\* The Delete key, pressed in the last window, removes the selected rows,
\* those and no other, in whatever order the list is shown.
RemovesSelected ==
    [][\A selected \in SUBSET DOMAIN list.rows :
           RemoveSelected(selected) =>
               LET goes(i) == i \in selected /\ list.rows[i].path # NoPath
               IN  \E stays \in SortedBy(<, {i \in DOMAIN list.rows : ~goes(i)}) :
                       list'.rows = [n \in DOMAIN stays |-> list.rows[stays[n]]]]_vars
=============================================================================
