--------------------------- MODULE ContactsProofs ----------------------------
(* Proofs about Contacts for any contacts and any number of faults.         *)
EXTENDS Contacts, TLAPS

LEMMA NoMaps == NoFile \notin Maps /\ Empty \notin Maps /\ Torn \notin Maps
  BY ContactsAssumption DEF Maps

\* What contacts.gob holds: nothing while it is being written; else, when no
\* save was interrupted or failed, what the last save promised.
Kept ==
    /\ proc = "saving" => file = Empty
    /\ ~broken /\ proc # "saving" =>
           file = promised \/ (file \notin Maps /\ promised = NoContacts)

LEMMA DecodedMap ==
    ASSUME contactMap \in Maps, NEW f
    PROVE  /\ Decoded(f) \in Maps
           /\ f \in Maps => \A k \in Keys :
                  Decoded(f)[k] = IF f[k] # None THEN f[k] ELSE contactMap[k]
           /\ f \notin Maps => Decoded(f) = contactMap
  BY DEF Decoded, Maps

LEMMA InitKept == Init => TypeOK /\ Kept
  <1> SUFFICES ASSUME Init PROVE TypeOK /\ Kept
    OBVIOUS
  <1>1. NoContacts \in Maps /\ 0 \in 0..MaxFaults
    BY ContactsAssumption DEF Maps, NoContacts
  <1>2. TypeOK
    BY <1>1 DEF Init, TypeOK
  <1>3. Kept
    BY NoMaps DEF Init, Kept
  <1> QED BY <1>2, <1>3

LEMMA TypeStep == TypeOK /\ Kept /\ [Next]_vars => TypeOK'
  <1> SUFFICES ASSUME TypeOK, Kept, [Next]_vars PROVE TypeOK'
    OBVIOUS
  <1>0. /\ proc \in {"off", "on", "saving"} /\ contactMap \in Maps
        /\ file \in {NoFile, Empty, Torn} \cup Maps /\ ret \in {"none", "ok", "error"}
        /\ promised \in Maps /\ broken \in BOOLEAN /\ gone \subseteq Keys
        /\ loaded \in BOOLEAN /\ removed \subseteq Keys
        /\ faults \in 0..MaxFaults /\ MaxFaults \in Nat /\ NoContacts \in Maps
    BY ContactsAssumption DEF TypeOK, Maps, NoContacts
  <1>1. Fault => faults' \in 0..MaxFaults
    BY <1>0 DEF Fault
  <1>2. CASE Start
    BY <1>0, <1>2 DEF Start, HistoryUnchanged, TypeOK
  <1>3. CASE ReadContactsFile
    BY <1>0, <1>1, <1>3, DecodedMap DEF ReadContactsFile, DecodeFile, ReadFails, Opened,
       HistoryUnchanged, TypeOK
  <1>4. CASE OpenToWrite
    BY <1>0, <1>1, <1>4 DEF OpenToWrite, Truncated, HistoryUnchanged, TypeOK
  <1>5. CASE Encode
    <2>1. \/ Returned("ok") \/ Returned("error")
      BY <1>5 DEF Encode
    <2>2. promised' \in Maps /\ gone' \subseteq Keys /\ ret' \in {"ok", "error"}
      BY <1>0, <2>1 DEF Returned
    <2>3. /\ file' \in {NoFile, Empty, Torn} \cup Maps /\ broken' \in BOOLEAN
          /\ proc' = "on" /\ UNCHANGED <<contactMap, loaded, removed>> /\ faults' \in 0..MaxFaults
      BY <1>0, <1>1, <1>5 DEF Encode
    <2> QED BY <1>0, <2>2, <2>3 DEF TypeOK
  <1>6. CASE Kill
    BY <1>0, <1>1, <1>6 DEF Kill, TypeOK
  <1>7. ASSUME NEW k \in Keys, RemoveContact(k) PROVE TypeOK'
    BY <1>0, <1>7 DEF RemoveContact, TypeOK, Maps
  <1>8. ASSUME NEW k \in Keys, NEW name \in Names, addContact(k, name) PROVE TypeOK'
    <2>1. contactMap' \in Maps
      BY <1>0, <1>8 DEF addContact, Maps
    <2> QED BY <1>0, <1>8, <2>1 DEF addContact, TypeOK
  <1>9. CASE UNCHANGED vars
    BY <1>0, <1>9 DEF vars, TypeOK
  <1> QED BY <1>2, <1>3, <1>4, <1>5, <1>6, <1>7, <1>8, <1>9 DEF Next

LEMMA KeptStep == TypeOK /\ Kept /\ [Next]_vars => Kept'
  <1> SUFFICES ASSUME TypeOK, Kept, [Next]_vars PROVE Kept'
    OBVIOUS
  <1>0. broken \in BOOLEAN
    BY DEF TypeOK
  <1>1. CASE Start
    BY <1>1 DEF Start, HistoryUnchanged, Kept
  <1>2. CASE ReadContactsFile
    <2>1. proc = "on" /\ UNCHANGED <<proc, promised, broken>>
      BY <1>2 DEF ReadContactsFile, HistoryUnchanged
    <2>2. file' = file \/ (file = NoFile /\ file' = Empty)
      BY <1>2 DEF ReadContactsFile, DecodeFile, ReadFails, Opened
    <2>3. CASE ~broken
      <3>1. file = promised \/ (file \notin Maps /\ promised = NoContacts)
        BY <2>1, <2>3 DEF Kept
      <3>2. promised \in Maps
        BY DEF TypeOK
      <3> QED BY <2>1, <2>2, <3>1, <3>2, NoMaps DEF Kept
    <2> QED BY <2>1, <2>3 DEF Kept
  <1>3. CASE OpenToWrite
    <2>1. CASE proc' = "saving" /\ file' = Empty
      BY <2>1 DEF Kept
    <2>2. CASE UNCHANGED <<proc, file>>
      BY <1>3, <2>2 DEF OpenToWrite, HistoryUnchanged, Kept
    <2> QED BY <1>3, <2>1, <2>2 DEF OpenToWrite, Truncated
  <1>4. CASE Encode
    <2>1. proc' = "on"
      BY <1>4 DEF Encode
    <2>2. CASE broken'
      BY <2>1, <2>2 DEF Kept
    <2>3. CASE ~broken'
      <3>1. file' = contactMap /\ Returned("ok")
        BY <1>4, <2>3 DEF Encode
      <3>2. promised' = contactMap
        BY <3>1 DEF Returned
      <3> QED BY <2>1, <3>1, <3>2 DEF Kept
    <2> QED BY <2>2, <2>3
  <1>5. CASE Kill
    BY <1>5 DEF Kill, Kept
  <1>6. ASSUME NEW k \in Keys, RemoveContact(k) PROVE Kept'
    BY <1>6 DEF RemoveContact, Kept
  <1>7. ASSUME NEW k \in Keys, NEW name \in Names, addContact(k, name) PROVE Kept'
    BY <1>7 DEF addContact, Kept
  <1>8. CASE UNCHANGED vars
    BY <1>8 DEF vars, Kept
  <1> QED BY <1>1, <1>2, <1>3, <1>4, <1>5, <1>6, <1>7, <1>8 DEF Next

\* Memory, file and history keep their types, faults their bound.
THEOREM ContactsTyped == Spec => []TypeOK
  BY InitKept, TypeStep, KeptStep, PTL DEF Spec

\* Once this process has loaded the file, memory has what was promised, except
\* what the process removed itself.
Covered ==
    loaded => \A k \in Keys \ removed : promised[k] # None => contactMap[k] # None

\* An undisturbed save is loaded whole by any Decode that reads it.
LEMMA DecodeLoads ==
    ASSUME TypeOK, Kept, proc = "on", ~broken, NEW k \in Keys, promised[k] # None
    PROVE  Decoded(file)[k] = promised[k]
  <1>1. file = promised /\ promised \in Maps
    BY DEF Kept, NoContacts, TypeOK
  <1> QED BY <1>1, DecodedMap DEF TypeOK

LEMMA CoveredStep == TypeOK /\ Kept /\ Covered /\ [Next]_vars => Covered'
  <1> SUFFICES ASSUME TypeOK, Kept, Covered, [Next]_vars,
                      loaded', NEW j \in Keys, j \notin removed', promised'[j] # None
               PROVE  contactMap'[j] # None
    BY DEF Covered
  <1>0. contactMap \in Maps
    BY DEF TypeOK
  <1>1. CASE Start
    BY <1>1 DEF Start, HistoryUnchanged, Covered
  <1>2. CASE ReadContactsFile
    <2>1. j \notin removed /\ promised[j] # None /\ proc = "on"
      BY <1>2 DEF ReadContactsFile, HistoryUnchanged
    <2>2. CASE loaded
      <3>1. contactMap[j] # None
        BY <2>1, <2>2 DEF Covered
      <3>2. contactMap' = contactMap \/ contactMap' = Decoded(file)
        BY <1>2 DEF ReadContactsFile, DecodeFile, ReadFails
      <3> QED BY <1>0, <3>1, <3>2, DecodedMap
    <2>3. CASE ~loaded
      <3>1. contactMap' = Decoded(file) /\ ~broken
        BY <1>2, <2>3 DEF ReadContactsFile, DecodeFile, ReadFails
      <3> QED BY <2>1, <3>1, DecodeLoads
    <2> QED BY <2>2, <2>3
  <1>3. CASE OpenToWrite
    BY <1>3 DEF OpenToWrite, HistoryUnchanged, Covered
  <1>4. CASE Encode
    <2>1. UNCHANGED <<contactMap, loaded, removed>>
      BY <1>4 DEF Encode
    <2>2. promised' = contactMap \/ promised' = promised
      BY <1>4 DEF Encode, Returned
    <2> QED BY <2>1, <2>2 DEF Covered
  <1>5. CASE Kill
    BY <1>5 DEF Kill
  <1>6. ASSUME NEW k \in Keys, RemoveContact(k) PROVE contactMap'[j] # None
    <2>1. j \notin removed /\ (j = k => contactMap[k] = None)
      BY <1>6 DEF RemoveContact
    <2>2. contactMap[j] # None
      BY <1>6, <2>1 DEF RemoveContact, Covered
    <2> QED BY <1>0, <1>6, <2>1, <2>2 DEF RemoveContact, Maps
  <1>7. ASSUME NEW k \in Keys, NEW name \in Names, addContact(k, name)
        PROVE  contactMap'[j] # None
    <2>1. j # k => contactMap[j] # None
      BY <1>7 DEF addContact, Covered
    <2> QED BY <1>0, <1>7, <2>1, ContactsAssumption DEF addContact, Maps
  <1>8. CASE UNCHANGED vars
    BY <1>8 DEF vars, Covered
  <1> QED BY <1>1, <1>2, <1>3, <1>4, <1>5, <1>6, <1>7, <1>8 DEF Next

\* A save that returns nil (client.go:448) drops no contact that an earlier one
\* kept and this process did not remove, if the process has loaded contacts.gob
\* (client.go:421) as it was saved: whatever kills, torn files, failed saves and
\* failed reads lie between.
THEOREM SavedIsNotLost == Spec => SavedStaysThere
  <1> DEFINE Keeps == Encode /\ ret' = "ok" /\ loaded =>
                 \A k \in Keys \ removed : promised[k] # None => promised'[k] # None
  <1>1. Init => Covered
    BY DEF Init, Covered
  <1>2. TypeOK /\ Kept /\ Covered /\ [Next]_vars => [Keeps]_vars
    <2> SUFFICES ASSUME TypeOK, Covered, Encode, ret' = "ok", loaded,
                        NEW k \in Keys, k \notin removed, promised[k] # None
                 PROVE  promised'[k] # None
      OBVIOUS
    <2>1. promised' = contactMap
      BY DEF Encode, Returned
    <2> QED BY <2>1 DEF Covered
  <1> QED BY <1>1, <1>2, InitKept, TypeStep, KeptStep, CoveredStep, PTL
          DEF Spec, SavedStaysThere

\* A removal that was saved is in the file and in memory.
Gone ==
    \A k \in gone : /\ contactMap[k] = None /\ promised[k] = None
                    /\ file \in Maps => file[k] = None

LEMMA GoneStep == TypeOK /\ Kept /\ Gone /\ [Next]_vars => Gone'
  <1> SUFFICES ASSUME TypeOK, Kept, Gone, [Next]_vars, NEW j \in gone'
               PROVE  /\ contactMap'[j] = None /\ promised'[j] = None
                      /\ file' \in Maps => file'[j] = None
    BY DEF Gone
  <1>0. /\ contactMap \in Maps /\ promised \in Maps /\ gone \subseteq Keys
        /\ Empty \notin Maps /\ Torn \notin Maps
    BY NoMaps DEF TypeOK
  <1>1. CASE Start
    BY <1>1 DEF Start, HistoryUnchanged, Gone
  <1>2. CASE ReadContactsFile
    <2>1. j \in gone /\ j \in Keys /\ UNCHANGED promised
      BY <1>0, <1>2 DEF ReadContactsFile, HistoryUnchanged
    <2>2. CASE contactMap' = Decoded(file) /\ file' = Opened
      BY <1>0, <2>1, <2>2, DecodedMap DEF Gone, Opened
    <2> QED BY <1>0, <1>2, <2>1, <2>2 DEF ReadContactsFile, DecodeFile, ReadFails, Opened, Gone
  <1>3. CASE OpenToWrite
    BY <1>0, <1>3 DEF OpenToWrite, Truncated, HistoryUnchanged, Gone
  <1>4. CASE Encode
    <2>1. file = Empty /\ contactMap' = contactMap
      BY <1>4 DEF Encode, Kept
    <2>2. CASE Returned("ok")
      <3>1. /\ promised' = contactMap
            /\ gone' = gone \cup {k \in Keys : promised[k] # None
                                               /\ contactMap[k] = None}
        BY <2>2 DEF Returned
      <3>2. contactMap[j] = None
        BY <3>1 DEF Gone
      <3> QED BY <1>0, <1>4, <2>1, <3>1, <3>2 DEF Encode
    <2>3. CASE Returned("error")
      <3>1. promised' = promised /\ gone' = gone
        BY <2>3 DEF Returned
      <3> QED BY <1>0, <1>4, <2>1, <3>1 DEF Encode, Gone
    <2> QED BY <1>4, <2>2, <2>3 DEF Encode
  <1>5. CASE Kill
    <2>1. j \in gone /\ j \in Keys /\ UNCHANGED promised /\ contactMap' = NoContacts
      BY <1>0, <1>5 DEF Kill
    <2>2. file' \in {file, Torn}
      BY <1>5 DEF Kill
    <2> QED BY <1>0, <2>1, <2>2 DEF Gone, NoContacts
  <1>6. ASSUME NEW k \in Keys, RemoveContact(k)
          PROVE  /\ contactMap'[j] = None /\ promised'[j] = None
                 /\ file' \in Maps => file'[j] = None
    BY <1>0, <1>6 DEF RemoveContact, Gone, Maps
  <1>7. ASSUME NEW k \in Keys, NEW name \in Names, addContact(k, name)
          PROVE  /\ contactMap'[j] = None /\ promised'[j] = None
                 /\ file' \in Maps => file'[j] = None
    BY <1>0, <1>7 DEF addContact, Gone, Maps
  <1>8. CASE UNCHANGED vars
    BY <1>8 DEF vars, Gone
  <1> QED BY <1>1, <1>2, <1>3, <1>4, <1>5, <1>6, <1>7, <1>8 DEF Next

\* A contact whose removal was saved does not come back by itself, whatever
\* kills and failures follow.
THEOREM RemovalHolds == Spec => []RemovedStaysGone
  <1>1. Init => Gone
    BY DEF Init, Gone
  <1>2. Gone => RemovedStaysGone
    BY DEF Gone, RemovedStaysGone
  <1> QED BY <1>1, <1>2, InitKept, TypeStep, KeptStep, GoneStep, PTL DEF Spec
=============================================================================
