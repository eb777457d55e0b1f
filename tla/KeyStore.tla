------------------------------ MODULE KeyStore -------------------------------
(* The key pair on disk (src/pkg/cryptography/rsa.go, OpenKeys), opened or  *)
(* made each time the application is activated (src/internal/client/ui.go,  *)
(* Start): when it is started, and when it is started again while it runs.  *)
(* The public and the private key are two files; the process may be killed, *)
(* and a file operation may fail, between any two steps.                    *)
(* A ...Bug definition is a wrong version of the one below it.              *)
EXTENDS Naturals

CONSTANTS
    NoFile, Torn,   \* a file that is not there, one with no PEM block in it
    MaxStarts,      \* how often the application is activated
    MaxFaults,      \* file operations that fail, and kills
    MaxLosses       \* how often the user loses key.pub between two activations

ASSUME KeyStoreAssumption ==
    /\ {MaxStarts, MaxFaults, MaxLosses} \subseteq Nat
    /\ NoFile # Torn /\ {NoFile, Torn} \cap Nat = {}

VARIABLES
    pub, priv,      \* key.pub and key.priv: NoFile, Torn, or the key pair
                    \* whose half the file holds
    proc,           \* the process: program counter and local blocks
    starts,         \* activations so far; the n-th makes the pair n
    known,          \* the pair the first successful start returned (history)
    faults, losses

vars == <<pub, priv, proc, starts, known, faults, losses>>

Pairs == 1..MaxStarts
Files == Pairs \cup {NoFile, Torn}
NoKey == 0

PCs == {"off", "stat", "readpub", "readpriv", "createpub", "writepub",
        "createpriv", "writepriv", "returned", "running", "failed", "panic"}

ProcType == [pc : PCs, pub : Pairs \cup {NoKey}, priv : Pairs \cup {NoKey}]

TypeOK ==
    /\ pub \in Files /\ priv \in Files
    /\ proc \in ProcType
    /\ starts \in 0..MaxStarts
    /\ known \in Pairs \cup {NoKey}
    /\ faults \in 0..MaxFaults /\ losses \in 0..MaxLosses

Off == [pc |-> "off", pub |-> NoKey, priv |-> NoKey]

Init ==
    /\ pub = NoFile /\ priv = NoFile
    /\ proc = Off /\ starts = 0 /\ known = NoKey /\ faults = 0 /\ losses = 0

-----------------------------------------------------------------------------
DiskUnchanged == UNCHANGED <<pub, priv>>
Goes(pc)      == proc' = [proc EXCEPT !.pc = pc]
Rest          == UNCHANGED <<starts, known, faults, losses>>

\* A process is started, or the one that runs is activated once more and
\* opens the keys again.
Activate ==
    /\ proc.pc \in {"off", "running"} /\ starts < MaxStarts
    /\ starts' = starts + 1
    /\ proc' = [Off EXCEPT !.pc = "stat"]
    /\ DiskUnchanged /\ UNCHANGED <<known, faults, losses>>

\* os.Stat(pubFileN): only key.pub decides whether keys exist.
StatPub ==
    /\ proc.pc = "stat"
    /\ Goes(IF pub # NoFile THEN "readpub" ELSE "createpub")
    /\ DiskUnchanged /\ Rest

\* pem.Decode of a file: nil unless it holds a block. A nil block returns
\* (nil, nil, nil).
BlockBug(file) == IF file = NoFile THEN NoKey ELSE file
Block(file)    == IF file \in Pairs THEN file ELSE NoKey

Nothing == proc' = [pc |-> "returned", pub |-> NoKey, priv |-> NoKey]

ReadPub ==
    /\ proc.pc = "readpub"
    /\ IF Block(pub) = NoKey THEN Nothing
       ELSE proc' = [proc EXCEPT !.pc = "readpriv", !.pub = Block(pub)]
    /\ DiskUnchanged /\ Rest

\* A missing key.priv is an error, not a reason to make one.
MissingPrivBug == "createpriv"
MissingPriv    == "failed"

ReadPriv ==
    /\ proc.pc = "readpriv"
    /\ IF priv = NoFile THEN Goes(MissingPriv)
       ELSE IF Block(priv) = NoKey THEN Nothing
       ELSE proc' = [proc EXCEPT !.pc = "returned", !.priv = Block(priv)]
    /\ DiskUnchanged /\ Rest

\* os.Create truncates.
CreatePub ==
    /\ proc.pc = "createpub"
    /\ pub' = Torn
    /\ Goes("writepub")
    /\ UNCHANGED priv /\ Rest

\* pem.Encode
EncodedBug == Torn
Encoded    == starts

WritePub ==
    /\ proc.pc = "writepub"
    /\ pub' = Encoded
    /\ proc' = [proc EXCEPT !.pc = "createpriv", !.pub = starts]
    /\ UNCHANGED priv /\ Rest

\* O_EXCL: an existing key.priv is never overwritten.
ExclusiveBug == FALSE
Exclusive    == priv # NoFile

CreatePriv ==
    /\ proc.pc = "createpriv"
    /\ IF Exclusive THEN Goes("failed") /\ UNCHANGED priv
       ELSE priv' = Torn /\ Goes("writepriv")
    /\ UNCHANGED pub /\ Rest

WritePriv ==
    /\ proc.pc = "writepriv"
    /\ priv' = Encoded
    /\ proc' = [proc EXCEPT !.pc = "returned", !.priv = starts]
    /\ UNCHANGED pub /\ Rest

\* Start: PemToKeys dereferences the private block.
UseKeys ==
    /\ proc.pc = "returned"
    /\ Goes(IF proc.priv = NoKey THEN "panic" ELSE "running")
    /\ known' = IF known = NoKey THEN proc.priv ELSE known
    /\ DiskUnchanged /\ UNCHANGED <<starts, faults, losses>>

\* The user quits, or the process that failed has exited.
Quit ==
    /\ proc.pc \in {"running", "failed", "panic"}
    /\ proc' = Off
    /\ DiskUnchanged /\ Rest

\* A file operation fails: OpenKeys returns its error. pem.Encode may have
\* written part of the block, which does not decode.
IOError ==
    /\ proc.pc \in {"readpub", "readpriv", "createpub", "writepub", "createpriv",
                    "writepriv"}
    /\ faults < MaxFaults /\ faults' = faults + 1
    /\ Goes("failed")
    /\ DiskUnchanged /\ UNCHANGED <<starts, known, losses>>

Kill ==
    /\ proc.pc # "off"
    /\ faults < MaxFaults /\ faults' = faults + 1
    /\ proc' = Off
    /\ DiskUnchanged /\ UNCHANGED <<starts, known, losses>>

\* The user deletes key.pub, or restores key.priv alone from a backup.
LosePub ==
    /\ proc.pc \in {"off", "running"} /\ pub # NoFile
    /\ losses < MaxLosses /\ losses' = losses + 1
    /\ pub' = NoFile
    /\ UNCHANGED <<priv, proc, starts, known, faults>>

Next ==
    \/ Activate \/ StatPub \/ ReadPub \/ ReadPriv \/ CreatePub \/ WritePub
    \/ CreatePriv \/ WritePriv \/ UseKeys \/ Quit \/ IOError \/ Kill
    \/ LosePub

Spec == Init /\ [][Next]_vars

-----------------------------------------------------------------------------
\* The public key the client runs with ("pubKeyBlock stores the RSA public
\* key of this client", client.go:56) belongs to its private key, whatever an
\* earlier start left behind; the loss of key.pub is the one thing that can
\* part them.
PairMatches == losses = 0 /\ proc.pc = "running" => proc.pub = proc.priv

\* A client keeps its private key: every successful start returns the one the
\* first returned, even when key.pub was lost in between.
SamePair == proc.pc = "running" => proc.priv = known

\* "OpenKeys open existing keys and return them as *pem.Block. If keys are
\* not found, new keys will be created." (rsa.go:34): a return without an
\* error has the keys, unless some start before it was killed or failed.
KeysReturned ==
    proc.pc = "returned" => (proc.pub # NoKey /\ proc.priv # NoKey) \/ faults > 0
=============================================================================
