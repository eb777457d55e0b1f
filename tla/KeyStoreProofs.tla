--------------------------- MODULE KeyStoreProofs ----------------------------
(* Proofs about KeyStore for any number of starts, faults and losses.       *)
EXTENDS KeyStore, TLAPS

LEMMA Constants ==
    /\ MaxStarts \in Nat /\ MaxFaults \in Nat /\ MaxLosses \in Nat
    /\ NoFile # Torn /\ NoFile \notin Nat /\ Torn \notin Nat
    /\ \A n \in Pairs : n \in Nat /\ n # NoKey
  BY KeyStoreAssumption DEF Pairs, NoKey

\* The ways a read of each file ends.
LEMMA ReadPubEnds ==
    ASSUME TypeOK, ReadPub
    PROVE  /\ UNCHANGED <<pub, priv, starts, known, faults, losses>>
           /\ proc.pc = "readpub" /\ proc' \in ProcType
           /\ \/ /\ proc'.pc = "returned" /\ proc'.pub = NoKey /\ proc'.priv = NoKey
              \/ /\ proc'.pc = "readpriv" /\ proc'.pub = pub /\ pub \in Pairs
                 /\ proc'.priv = proc.priv
  <1>0. proc \in ProcType /\ NoKey \notin Pairs
    BY Constants DEF TypeOK
  <1>1. CASE Nothing
    BY <1>1 DEF Nothing, ReadPub, ProcType, PCs, DiskUnchanged, Rest
  <1>2. CASE pub \in Pairs /\ ~Nothing
    <2>1. Block(pub) = pub /\ pub # NoKey
      BY <1>0, <1>2 DEF Block
    <2>2. proc' = [proc EXCEPT !.pc = "readpriv", !.pub = pub]
      BY <1>2, <2>1 DEF ReadPub
    <2> QED BY <1>0, <1>2, <2>2 DEF ReadPub, ProcType, PCs, DiskUnchanged, Rest
  <1>3. CASE pub \notin Pairs
    BY <1>1, <1>3 DEF ReadPub, Block
  <1> QED BY <1>1, <1>2, <1>3

LEMMA ReadPrivEnds ==
    ASSUME TypeOK, ReadPriv
    PROVE  /\ UNCHANGED <<pub, priv, starts, known, faults, losses>>
           /\ proc.pc = "readpriv" /\ proc' \in ProcType
           /\ \/ /\ proc'.pc = "returned" /\ proc'.pub = NoKey /\ proc'.priv = NoKey
              \/ /\ proc'.pc = "returned" /\ proc'.priv = priv /\ priv \in Pairs
                 /\ proc'.pub = proc.pub
              \/ /\ proc'.pc = "failed"
  <1>0. proc \in ProcType /\ NoKey \notin Pairs /\ NoFile \notin Pairs
    BY Constants DEF TypeOK, Pairs
  <1>1. CASE Nothing
    BY <1>1 DEF Nothing, ReadPriv, ProcType, PCs, DiskUnchanged, Rest
  <1>2. CASE priv = NoFile
    <2>1. proc' = [proc EXCEPT !.pc = "failed"]
      BY <1>2 DEF ReadPriv, Goes, MissingPriv
    <2> QED BY <1>0, <2>1 DEF ReadPriv, ProcType, PCs, DiskUnchanged, Rest
  <1>3. CASE priv \in Pairs /\ ~Nothing
    <2>1. Block(priv) = priv /\ priv # NoKey /\ priv # NoFile
      BY <1>0, <1>3 DEF Block
    <2>2. proc' = [proc EXCEPT !.pc = "returned", !.priv = priv]
      BY <1>3, <2>1 DEF ReadPriv
    <2> QED BY <1>0, <1>3, <2>2 DEF ReadPriv, ProcType, PCs, DiskUnchanged, Rest
  <1>4. CASE priv \notin Pairs /\ priv # NoFile
    BY <1>1, <1>4 DEF ReadPriv, Block
  <1> QED BY <1>1, <1>2, <1>3, <1>4

\* Types, with what the program counter says of the locals.
KeyType ==
    /\ TypeOK
    /\ proc.pc # "off" => starts \in Pairs
    /\ proc.pc \in {"readpriv", "createpriv", "writepriv"} => proc.pub \in Pairs
    /\ proc.pc \in {"off", "stat", "readpub", "createpub", "writepub"} =>
           proc.pub = NoKey /\ proc.priv = NoKey

LEMMA KeyTypeStep == KeyType /\ [Next]_vars => KeyType'
  <1> SUFFICES ASSUME KeyType, [Next]_vars PROVE KeyType'
    OBVIOUS
  <1>0. /\ proc \in ProcType /\ pub \in Files /\ priv \in Files
        /\ starts \in 0..MaxStarts /\ TypeOK
    BY DEF KeyType, TypeOK
  <1>1. CASE Activate \/ StatPub \/ Quit
    BY <1>0, <1>1, Constants
       DEF Activate, StatPub, Quit, KeyType, TypeOK, ProcType, PCs, Goes,
           DiskUnchanged, Rest, Off, NoKey, Pairs, Files
  <1>6. CASE IOError \/ Kill \/ LosePub
    <2>1. /\ faults' \in 0..MaxFaults /\ losses' \in 0..MaxLosses
          /\ UNCHANGED <<priv, starts, known>> /\ pub' \in Files
      BY <1>0, <1>6, Constants DEF IOError, Kill, LosePub, TypeOK, DiskUnchanged, Files
    <2>2. \/ proc' = [proc EXCEPT !.pc = "failed"] /\ proc.pc # "off"
          \/ proc' = Off
          \/ UNCHANGED proc
      BY <1>6 DEF IOError, Kill, LosePub, Goes
    <2>3. proc' \in ProcType
      BY <1>0, <2>2 DEF ProcType, PCs, Off, NoKey
    <2>4. TypeOK'
      BY <1>0, <2>1, <2>3 DEF TypeOK
    <2> QED BY <1>0, <2>1, <2>2, <2>4 DEF KeyType, ProcType, Off
  <1>2. CASE ReadPub
    BY <1>0, <1>2, ReadPubEnds DEF KeyType, TypeOK
  <1>7. CASE ReadPriv
    BY <1>0, <1>7, ReadPrivEnds DEF KeyType, TypeOK
  <1>3. CASE CreatePub \/ WritePub \/ CreatePriv \/ WritePriv
    BY <1>0, <1>3, Constants
       DEF CreatePub, WritePub, CreatePriv, WritePriv, Encoded, Exclusive, KeyType, TypeOK,
           ProcType, PCs, Goes, DiskUnchanged, Rest, NoKey, Pairs, Files
  <1>4. CASE UseKeys
    BY <1>0, <1>4, Constants
       DEF UseKeys, KeyType, TypeOK, ProcType, PCs, Goes, DiskUnchanged, NoKey,
           Pairs, Files
  <1>5. CASE UNCHANGED vars
    BY <1>5 DEF vars, KeyType, TypeOK
  <1> QED BY <1>1, <1>2, <1>3, <1>4, <1>5, <1>6, <1>7 DEF Next

\* The private key: once a start has returned one, key.priv holds it for good.
Kept ==
    /\ known # NoKey => priv = known
    /\ proc.pc = "writepriv" => known = NoKey
    /\ proc.pc \in {"returned", "running"} =>
           proc.priv = NoKey \/ (proc.priv = priv /\ (known # NoKey => known = priv))
    /\ proc.pc = "running" => proc.priv = known /\ known # NoKey

LEMMA KeptStep == KeyType /\ Kept /\ [Next]_vars => Kept'
  <1> SUFFICES ASSUME KeyType, Kept, [Next]_vars PROVE Kept'
    OBVIOUS
  <1>0. /\ proc \in ProcType /\ priv \in Files /\ known \in Pairs \cup {NoKey}
        /\ proc.pc # "off" => starts \in Pairs
        /\ NoKey \notin Pairs /\ NoFile \notin Pairs /\ Torn \notin Pairs
    BY Constants DEF KeyType, TypeOK, NoKey
  <1>1. CASE Activate \/ StatPub \/ Quit \/ IOError \/ Kill \/ LosePub
    BY <1>0, <1>1 DEF Activate, StatPub, Quit, IOError, Kill, LosePub, Kept,
                      ProcType, Goes, DiskUnchanged, Rest, Off
  <1>2. CASE ReadPub
    BY <1>0, <1>2, ReadPubEnds DEF KeyType, Kept
  <1>3. CASE ReadPriv
    BY <1>0, <1>3, ReadPrivEnds DEF KeyType, Kept
  <1>4. CASE CreatePub \/ WritePub
    BY <1>0, <1>4 DEF CreatePub, WritePub, Encoded, Kept, ProcType, Goes, Rest
  <1>5. CASE CreatePriv
    BY <1>0, <1>5 DEF CreatePriv, Exclusive, Kept, ProcType, Goes, Rest
  <1>6. CASE WritePriv
    BY <1>0, <1>6 DEF WritePriv, Encoded, Kept, ProcType, Rest
  <1>7. CASE UseKeys
    BY <1>0, <1>7 DEF UseKeys, Kept, ProcType, Goes, DiskUnchanged
  <1>8. CASE UNCHANGED vars
    BY <1>8 DEF vars, Kept
  <1> QED BY <1>1, <1>2, <1>3, <1>4, <1>5, <1>6, <1>7, <1>8 DEF Next

LEMMA KeyInit == Init => KeyType /\ Kept
  BY KeyStoreAssumption
     DEF Init, KeyType, Kept, TypeOK, ProcType, PCs, Files, Pairs, Off, NoKey

\* A file holds a half of a pair that was made, a block or nothing; the
\* process is where OpenKeys and Start can be.
THEOREM KeysTyped == Spec => []TypeOK
  <1>1. KeyType => TypeOK
    BY DEF KeyType
  <1> QED BY <1>1, KeyInit, KeyTypeStep, KeptStep, PTL DEF Spec

\* A client never changes its private key, however often it is started,
\* killed, or loses key.pub: O_EXCL protects key.priv.
THEOREM PairKept == Spec => []SamePair
  <1>1. KeyType /\ Kept => SamePair
    BY DEF Kept, SamePair
  <1> QED BY <1>1, KeyInit, KeyTypeStep, KeptStep, PTL DEF Spec

-----------------------------------------------------------------------------
(* Without a loss of key.pub: key.pub exists whenever key.priv does, and    *)
(* the two are made by one start.                                           *)

Matched ==
    /\ pub = NoFile => priv = NoFile
    /\ pub = Torn => priv = NoFile
    /\ priv \in Pairs => pub = priv
    /\ proc.pc = "createpub" => pub = NoFile
    /\ proc.pc = "writepub" => pub = Torn
    /\ proc.pc \in {"createpriv", "writepriv"} => pub = starts /\ priv \notin Pairs
    /\ proc.pc = "createpriv" => priv = NoFile
    /\ proc.pc \in {"readpriv", "createpriv", "writepriv"} => proc.pub = pub
    /\ proc.pc \in {"returned", "running"} =>
           proc.priv = NoKey \/ proc.pub = proc.priv
    /\ proc.pc = "running" => proc.priv # NoKey

LEMMA MatchedStep ==
    ASSUME KeyType, losses = 0 => Matched, [Next]_vars, losses' = 0
    PROVE  Matched'
  <1>0. /\ proc \in ProcType /\ priv \in Files /\ pub \in Files
        /\ losses \in Nat
        /\ proc.pc # "off" => starts \in Pairs
        /\ NoKey \notin Pairs /\ NoFile \notin Pairs /\ Torn \notin Pairs
        /\ NoFile # Torn
    BY Constants DEF KeyType, TypeOK, NoKey
  <1>9. losses = 0 /\ ~LosePub
    BY <1>0 DEF LosePub, Next, vars, Activate, StatPub, ReadPub, ReadPriv, CreatePub,
                WritePub, CreatePriv, WritePriv, UseKeys, Quit, IOError, Kill, Rest
  <1>10. Matched
    BY <1>9
  <1>1. CASE Activate \/ StatPub \/ Quit \/ IOError \/ Kill
    BY <1>0, <1>1, <1>10 DEF Activate, StatPub, Quit, IOError, Kill, Matched,
                      ProcType, Goes, DiskUnchanged, Rest, Off
  <1>2. CASE ReadPub
    BY <1>0, <1>2, <1>10, ReadPubEnds DEF KeyType, Matched
  <1>3. CASE ReadPriv
    BY <1>0, <1>3, <1>10, ReadPrivEnds DEF KeyType, Matched
  <1>4. CASE CreatePub \/ WritePub
    BY <1>0, <1>4, <1>10 DEF CreatePub, WritePub, Encoded, Matched, ProcType, Goes, Rest
  <1>5. CASE CreatePriv
    BY <1>0, <1>5, <1>10 DEF CreatePriv, Exclusive, Matched, ProcType, Goes, Rest
  <1>6. CASE WritePriv
    BY <1>0, <1>6, <1>10 DEF WritePriv, Encoded, Matched, ProcType, Rest
  <1>7. CASE UseKeys
    BY <1>0, <1>7, <1>10 DEF UseKeys, Matched, ProcType, Goes, DiskUnchanged
  <1>8. CASE UNCHANGED vars
    BY <1>8, <1>10 DEF vars, Matched
  <1> QED BY <1>1, <1>2, <1>3, <1>4, <1>5, <1>6, <1>7, <1>8, <1>9 DEF Next

\* As long as key.pub is not lost, kills and failures never leave the client
\* with halves of two key pairs.
THEOREM PairsMatch == Spec => []PairMatches
  <1> DEFINE Inv == losses = 0 => Matched
  <1>1. Init => Inv
    BY KeyStoreAssumption DEF Init, Matched, Off, Pairs, NoKey
  <1>2. KeyType /\ Inv /\ [Next]_vars => Inv'
    BY MatchedStep
  <1>3. Inv => PairMatches
    BY DEF Matched, PairMatches
  <1> HIDE DEF Inv
  <1> QED BY <1>1, <1>2, <1>3, KeyInit, KeyTypeStep, PTL DEF Spec

-----------------------------------------------------------------------------
(* Without kills and failed file operations, no file is found half-written. *)

Whole ==
    /\ pub = Torn => proc.pc = "writepub"
    /\ priv = Torn => proc.pc = "writepriv"
    /\ proc.pc = "readpub" => pub # NoFile
    /\ proc.pc = "returned" => proc.pub # NoKey /\ proc.priv # NoKey

LEMMA WholeStep ==
    ASSUME KeyType, faults = 0 => Whole, [Next]_vars, faults' = 0
    PROVE  Whole'
  <1>0. /\ proc \in ProcType /\ priv \in Files /\ pub \in Files
        /\ faults \in Nat
        /\ proc.pc # "off" => starts \in Pairs
        /\ NoKey \notin Pairs /\ NoFile \notin Pairs /\ Torn \notin Pairs
        /\ NoFile # Torn
    BY Constants DEF KeyType, TypeOK, NoKey
  <1>1. faults = 0 /\ ~IOError /\ ~Kill
    <2>1. ~IOError /\ ~Kill
      BY <1>0 DEF IOError, Kill
    <2>2. UNCHANGED faults
      BY <2>1 DEF Next, vars, Activate, StatPub, ReadPub, ReadPriv, CreatePub, WritePub,
                  CreatePriv, WritePriv, UseKeys, Quit, LosePub, Rest
    <2> QED BY <2>1, <2>2
  <1>2. Whole
    BY <1>1
  <1>3. CASE Activate \/ StatPub \/ Quit \/ LosePub
    BY <1>0, <1>2, <1>3 DEF Activate, StatPub, Quit, LosePub, Whole, ProcType, Goes,
                            DiskUnchanged, Rest, Off
  <1>4. CASE ReadPub
    <2>1. pub \in Pairs /\ Block(pub) = pub
      BY <1>0, <1>2, <1>4 DEF ReadPub, Whole, Files, Block
    <2>2. proc' = [proc EXCEPT !.pc = "readpriv", !.pub = pub]
      BY <1>0, <1>4, <2>1 DEF ReadPub
    <2> QED BY <1>0, <1>2, <1>4, <2>2 DEF ReadPub, Whole, ProcType, DiskUnchanged
  <1>5. CASE ReadPriv
    <2>1. proc.pub \in Pairs /\ proc.pc = "readpriv" /\ UNCHANGED <<pub, priv>>
      BY <1>5 DEF ReadPriv, KeyType, DiskUnchanged
    <2>2. CASE priv = NoFile
      BY <1>0, <1>2, <1>5, <2>1, <2>2 DEF ReadPriv, Goes, MissingPriv, Whole, ProcType
    <2>3. CASE priv \in Pairs
      <3>1. Block(priv) = priv /\ priv # NoKey /\ priv # NoFile
        BY <1>0, <2>3 DEF Block
      <3>2. proc' = [proc EXCEPT !.pc = "returned", !.priv = priv]
        BY <1>5, <3>1 DEF ReadPriv
      <3> QED BY <1>0, <1>2, <2>1, <3>1, <3>2 DEF Whole, ProcType
    <2> QED BY <1>0, <1>2, <2>1, <2>2, <2>3 DEF Whole, Files
  <1>6. CASE CreatePub
    BY <1>0, <1>2, <1>6 DEF CreatePub, Whole, ProcType, Goes, Rest
  <1>11. CASE WritePub
    <2>1. pub' \in Pairs /\ proc'.pc = "createpriv" /\ UNCHANGED priv
      BY <1>0, <1>11 DEF WritePub, Encoded, ProcType
    <2> QED BY <1>0, <1>2, <1>11, <2>1 DEF WritePub, Whole
  <1>7. CASE CreatePriv
    BY <1>0, <1>2, <1>7 DEF CreatePriv, Exclusive, Whole, ProcType, Goes
  <1>8. CASE WritePriv
    <2>1. proc.pub \in Pairs /\ proc.pc = "writepriv"
      BY <1>8 DEF WritePriv, KeyType
    <2>2. /\ priv' \in Pairs /\ UNCHANGED pub
          /\ proc'.pc = "returned" /\ proc'.pub = proc.pub /\ proc'.priv = starts
      BY <1>0, <1>8 DEF WritePriv, Encoded, ProcType
    <2> QED BY <1>0, <1>2, <2>1, <2>2 DEF Whole
  <1>9. CASE UseKeys
    BY <1>0, <1>2, <1>9 DEF UseKeys, Whole, ProcType, Goes, DiskUnchanged
  <1>10. CASE UNCHANGED vars
    BY <1>2, <1>10 DEF vars, Whole
  <1> QED BY <1>1, <1>3, <1>4, <1>5, <1>6, <1>7, <1>8, <1>9, <1>10, <1>11 DEF Next

\* As long as nothing is killed and no file operation fails, OpenKeys returns
\* either an error or both keys: never (nil, nil, nil), at which Start panics.
THEOREM KeysAreReturned == Spec => []KeysReturned
  <1> DEFINE Inv == faults = 0 => Whole
  <1>1. Init => Inv
    BY KeyStoreAssumption DEF Init, Whole, Off
  <1>2. KeyType /\ Inv /\ [Next]_vars => Inv'
    BY WholeStep
  <1>3. KeyType /\ Inv => KeysReturned
    BY DEF Whole, KeyType, TypeOK, KeysReturned
  <1> HIDE DEF Inv
  <1> QED BY <1>1, <1>2, <1>3, KeyInit, KeyTypeStep, PTL DEF Spec
=============================================================================
