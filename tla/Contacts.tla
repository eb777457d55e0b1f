------------------------------ MODULE Contacts -------------------------------
(* The contacts of a client (src/internal/client/client.go): contactMap in  *)
(* memory and contacts.gob on disk, across restarts and kills. A caller of  *)
(* these functions is not written yet: any order of calls is explored.      *)
(* A ...Bug definition is a wrong version of the one below it.              *)
EXTENDS Naturals

CONSTANTS
    Keys,           \* hashes of public keys
    Names,          \* what a contact holds beside its key
    None,           \* no contact
    NoFile,         \* contacts.gob does not exist
    Empty,          \* it has no byte
    Torn,           \* it holds a part of an encoding
    MaxFaults       \* how many kills and failing file operations there are

ASSUME ContactsAssumption ==
    /\ None \notin Names
    /\ MaxFaults \in Nat
    /\ {NoFile, Empty, Torn} \cap [Keys -> Names \cup {None}] = {}

VARIABLES
    proc,           \* "off", "on", or "saving": contacts.gob is open, truncated
    contactMap,     \* per key: its contact or None
    file,           \* contacts.gob
    ret,            \* what the last ReadContactsFile or WriteContactsFile returned
    promised,       \* contactMap when WriteContactsFile last returned nil (history)
    broken,         \* an encoding was interrupted since one succeeded (history)
    gone,           \* keys removed, saved as removed, and not added since (history)
    loaded,         \* this process has loaded what was promised (history)
    removed,        \* keys this process removed, and did not add since (history)
    faults

vars == <<proc, contactMap, file, ret, promised, broken, gone, loaded, removed,
          faults>>

Maps == [Keys -> Names \cup {None}]
NoContacts == [k \in Keys |-> None]

TypeOK ==
    /\ proc \in {"off", "on", "saving"}
    /\ contactMap \in Maps
    /\ file \in {NoFile, Empty, Torn} \cup Maps
    /\ ret \in {"none", "ok", "error"}
    /\ promised \in Maps
    /\ broken \in BOOLEAN
    /\ gone \subseteq Keys
    /\ loaded \in BOOLEAN /\ removed \subseteq Keys
    /\ faults \in 0..MaxFaults

Init ==
    /\ proc = "off" /\ contactMap = NoContacts
    /\ file = NoFile
    /\ ret = "none"
    /\ promised = NoContacts /\ broken = FALSE /\ gone = {}
    /\ loaded = FALSE /\ removed = {}
    /\ faults = 0

Fault == faults < MaxFaults /\ faults' = faults + 1

HistoryUnchanged == UNCHANGED <<promised, broken, gone, removed>>

-----------------------------------------------------------------------------
\* InitConfig: an empty map.
Start ==
    /\ proc = "off" /\ proc' = "on"
    /\ ret' = "none"
    /\ HistoryUnchanged /\ UNCHANGED <<contactMap, file, loaded, faults>>

\* gob.Decode into a map adds the decoded entries to it, replacing those of
\* the same key. It decodes nothing from a torn file, and leaves the map as it
\* is at the end of an empty one.
DecodedBug(f)  == IF f = Torn THEN contactMap ELSE f
DecodedBug2(f) == IF f = Empty THEN NoContacts
                  ELSE IF f \in Maps
                  THEN [k \in Keys |-> IF f[k] # None THEN f[k] ELSE contactMap[k]]
                  ELSE contactMap
Decoded(f) == IF f \in Maps
              THEN [k \in Keys |-> IF f[k] # None THEN f[k] ELSE contactMap[k]]
              ELSE contactMap

\* os.O_CREATE.
Opened == IF file = NoFile THEN Empty ELSE file

\* ReadContactsFile. What Decode returns does not reach the caller: the
\* deferred err = file.Close() replaces it.
DecodeFile ==
    /\ contactMap' = Decoded(file)
    /\ file' = Opened
    /\ \/ ret' = "ok" /\ loaded' = (loaded \/ ~broken) /\ UNCHANGED faults
       \/ ret' = "error" /\ Fault /\ UNCHANGED loaded     \* Close fails

\* Nothing is loaded: a read inside Decode fails and nil is returned, or
\* OpenFile or Close fails as well.
ReadFails ==
    /\ Fault
    /\ \/ ret' = "ok" /\ file' = Opened
       \/ ret' = "error" /\ file' \in {file, Opened}
    /\ UNCHANGED <<contactMap, loaded>>

ReadContactsFile ==
    /\ proc = "on"
    /\ DecodeFile \/ ReadFails
    /\ HistoryUnchanged /\ UNCHANGED proc

\* WriteContactsFile: os.OpenFile with O_TRUNC...
TruncatedBug == IF file = NoFile THEN Empty ELSE file
Truncated    == Empty

OpenToWrite ==
    /\ proc = "on"
    /\ \/ /\ proc' = "saving"
          /\ file' = Truncated
          /\ UNCHANGED <<ret, faults>>
       \/ /\ Fault
          /\ ret' = "error"
          /\ UNCHANGED <<proc, file>>
    /\ HistoryUnchanged /\ UNCHANGED <<contactMap, loaded>>

\* ...and Encode, whose error the deferred Close replaces as well. What a
\* failing Encode has written before is nothing or a part.
Returned(r) == /\ ret' = r
               /\ promised' = IF r = "ok" THEN contactMap ELSE promised
               /\ gone' = IF r = "ok"
                          THEN gone \cup {k \in Keys : promised[k] # None
                                                       /\ contactMap[k] = None}
                          ELSE gone

Encode ==
    /\ proc = "saving" /\ proc' = "on"
    /\ \/ /\ file' = contactMap
          /\ broken' = FALSE
          /\ Returned("ok") /\ UNCHANGED faults
       \/ /\ Fault                                  \* Encode fails
          /\ file' \in {file, Torn}
          /\ broken' = TRUE
          /\ Returned("ok")
       \/ /\ Fault                                  \* Close fails
          /\ file' \in {contactMap, Torn}
          /\ broken' = TRUE
          /\ Returned("error")
    /\ UNCHANGED <<contactMap, loaded, removed>>

\* A contact that is already there stays as it is; the result is true anyway.
addContact(k, name) ==
    /\ proc = "on"
    /\ contactMap' = [contactMap EXCEPT ![k] = IF @ = None THEN name ELSE @]
    /\ gone' = gone \ {k} /\ removed' = removed \ {k}
    /\ UNCHANGED <<proc, file, ret, promised, broken, loaded, faults>>

RemoveContact(k) ==
    /\ proc = "on"
    /\ contactMap' = [contactMap EXCEPT ![k] = None]
    /\ removed' = IF contactMap[k] # None THEN removed \cup {k} ELSE removed
    /\ UNCHANGED <<proc, file, ret, promised, broken, gone, loaded, faults>>

\* The process ends: at rest, or between truncation and the end of Encode.
Kill ==
    /\ proc # "off" /\ proc' = "off"
    /\ \/ proc = "on" /\ UNCHANGED <<file, broken, faults>>
       \/ /\ proc = "saving" /\ Fault
          /\ file' \in {file, Torn}
          /\ broken' = TRUE
    /\ contactMap' = NoContacts
    /\ loaded' = FALSE /\ removed' = {}
    /\ UNCHANGED <<ret, promised, gone>>

Next ==
    \/ Start \/ ReadContactsFile \/ OpenToWrite \/ Encode \/ Kill
    \/ \E k \in Keys : RemoveContact(k) \/ \E name \in Names : addContact(k, name)

Spec == Init /\ [][Next]_vars

-----------------------------------------------------------------------------
(* Properties.                                                              *)

\* A contact that was saved is not lost by a later save that returns nil, unless
\* this process removed it: however many kills, torn files and failed saves lie
\* between, if this process has once loaded the file while it was as saved. (A
\* ReadContactsFile whose reads fail also returns nil, with nothing loaded: the
\* next save then overwrites the contacts that are on disk.)
SavedStaysThere ==
    [][Encode /\ ret' = "ok" /\ loaded =>
           \A k \in Keys \ removed : promised[k] # None => promised'[k] # None]_vars

\* A contact that was removed, and the removal saved, never comes back by
\* itself: not after a kill, nor after a save that fails without saying so.
RemovedStaysGone == \A k \in gone : contactMap[k] = None
=============================================================================
