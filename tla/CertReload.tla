----------------------------- MODULE CertReload -----------------------------
(***************************************************************************)
(* The TLS key pair the webhook serves: the loop at the end of main        *)
(* (cmd/webhook/main.go) that looks for a new certificate every second and *)
(* sends SIGHUP to its own process, and the goroutine of                   *)
(* NewTLSKeypairReloader (pkg/webhook/tlsutil.go) that loads the pair      *)
(* again.  Certificate and key are two files, written by somebody else and *)
(* read one after the other.  Any failure ends the process (glog.Fatalf);  *)
(* its container is started again.                                         *)
(*                                                                         *)
(* A file is represented by the number of the rotation that wrote it, and  *)
(* a hash by the number of the certificate: a certificate and a key belong *)
(* together if their numbers are equal.                                    *)
(***************************************************************************)
EXTENDS Naturals

CONSTANTS MaxRotations, \* bound on the rotations of the pair
          Nothing,      \* no file, no hash, no certificate
          Disturbances  \* how pairs may be rotated, see Rotate, and Interrupted

ASSUME RotationsAssumption == MaxRotations \in Nat
ASSUME NothingAssumption ==
  Nothing \notin Nat /\ Nothing \notin [cert : Nat, key : Nat]

VARIABLES rotations, \* the pair that is, or is being, installed
          certFile, keyFile,
          main,      \* where main is
          oldHash,   \* oldHashVal and
          newHash,   \* newHashVal of main's loop
          reloader,  \* where the goroutine that handles SIGHUP is
          newCert,   \* the certificate LoadX509KeyPair has read
          pending,   \* SIGHUP was sent and not delivered
          hangup,    \* the channel of signal.Notify, of capacity 1
          served     \* the certificate and key GetCertificate returns

vars == <<rotations, certFile, keyFile, main, oldHash, newHash, reloader,
          newCert, pending, hangup, served>>
files   == <<rotations, certFile, keyFile>>
hashes  == <<oldHash, newHash>>
signals == <<pending, hangup>>

Versions == 0 .. MaxRotations
Pairs    == [cert : Versions, key : Versions]

TypeOK ==
  /\ rotations \in Versions
  /\ certFile \in Versions \cup {Nothing}
  /\ keyFile \in Versions \cup {Nothing}
  /\ main \in {"down", "load", "loadKey", "poll", "compare"}
  /\ oldHash \in Versions \cup {Nothing}
  /\ newHash \in IF main = "compare" THEN Versions ELSE {Nothing}
  /\ reloader \in {"none", "starting", "waiting", "load", "loadKey"}
  /\ newCert \in Versions \cup {Nothing}
  /\ pending \in BOOLEAN
  /\ hangup \in BOOLEAN
  /\ served \in Pairs \cup {Nothing}

Init ==
  /\ rotations = 0 /\ certFile = 0 /\ keyFile = 0
  /\ main = "load"
  /\ oldHash = Nothing /\ newHash = Nothing
  /\ reloader = "none"
  /\ newCert = Nothing
  /\ pending = FALSE /\ hangup = FALSE
  /\ served = Nothing

-----------------------------------------------------------------------------
(* The files.                                                              *)

Complete == certFile = rotations /\ keyFile = rotations

\* main has read the certificate to serve and not yet the one to compare with.
FirstHashDue == main = "loadKey" \/ (main = "poll" /\ oldHash = Nothing)

\* The certificate may change now.
CertMayChange == FirstHashDue => "AtStart" \in Disturbances

process == <<main, hashes, reloader, newCert, signals, served>>

\* Both files at once, as in a volume with a secret.
RotateAtOnce ==
  /\ Complete /\ CertMayChange
  /\ rotations < MaxRotations
  /\ rotations' = rotations + 1
  /\ certFile' = rotations + 1 /\ keyFile' = rotations + 1
  /\ UNCHANGED process

\* One after the other, in any order.
StartRotation ==
  /\ "OneByOne" \in Disturbances
  /\ Complete
  /\ rotations < MaxRotations
  /\ rotations' = rotations + 1
  /\ UNCHANGED <<certFile, keyFile, process>>

WriteCert ==
  /\ certFile # rotations /\ CertMayChange
  /\ certFile' = rotations
  /\ UNCHANGED <<rotations, keyFile, process>>

WriteKey ==
  /\ keyFile # rotations
  /\ keyFile' = rotations
  /\ UNCHANGED <<rotations, certFile, process>>

\* The old file is removed before the new one is there.
RemoveFile ==
  /\ "Remove" \in Disturbances
  /\ \/ /\ certFile # rotations /\ CertMayChange
        /\ certFile' = Nothing
        /\ UNCHANGED keyFile
     \/ /\ keyFile # rotations
        /\ keyFile' = Nothing
        /\ UNCHANGED certFile
  /\ UNCHANGED <<rotations, process>>

Rotate == RotateAtOnce \/ StartRotation \/ WriteCert \/ WriteKey \/ RemoveFile

-----------------------------------------------------------------------------
(* The process.                                                            *)

\* The process ends, and all that it holds in memory is gone.
Fatal ==
  /\ main' = "down"
  /\ oldHash' = Nothing /\ newHash' = Nothing
  /\ reloader' = "none"
  /\ newCert' = Nothing
  /\ pending' = FALSE /\ hangup' = FALSE
  /\ served' = Nothing
  /\ UNCHANGED files

\* It is killed, or fails elsewhere.
Interrupted ==
  /\ "Interruptions" \in Disturbances
  /\ main # "down"
  /\ Fatal

Restart ==
  /\ main = "down"
  /\ main' = "load"
  /\ UNCHANGED <<files, hashes, reloader, newCert, signals, served>>

\* Mutant of KeyMatches: any key that is there will do.
KeyExists == keyFile # Nothing

\* tls.LoadX509KeyPair, having read the certificate, reads the key.
KeyMatches == keyFile = newCert

\* NewTLSKeypairReloader loads the pair for the first time.
LoadCert ==
  /\ main = "load"
  /\ \/ certFile = Nothing /\ Fatal
     \/ /\ certFile # Nothing
        /\ newCert' = certFile
        /\ main' = "loadKey"
        /\ UNCHANGED <<files, hashes, reloader, signals, served>>

\* It starts its goroutine, and main goes on to its loop.
LoadKey ==
  /\ main = "loadKey"
  /\ \/ ~KeyMatches /\ Fatal
     \/ /\ KeyMatches
        /\ served' = [cert |-> newCert, key |-> keyFile]
        /\ newCert' = Nothing
        /\ reloader' = "starting"
        /\ main' = "poll"
        /\ UNCHANGED <<files, hashes, signals>>

\* Mutant of Poll: a file that cannot be read is taken to be empty.
PollIgnoresError ==
  /\ main = "poll"
  /\ newHash' = certFile
  /\ main' = "compare"
  /\ UNCHANGED <<files, oldHash, reloader, newCert, signals, served>>

\* The loop of main reads the certificate.
Poll ==
  /\ main = "poll"
  /\ \/ certFile = Nothing /\ Fatal
     \/ /\ certFile # Nothing
        /\ newHash' = certFile
        /\ main' = "compare"
        /\ UNCHANGED <<files, oldHash, reloader, newCert, signals, served>>

\* Mutant of Compare: the hash is remembered before it is compared.
CompareTooLate ==
  /\ main = "compare"
  /\ oldHash' = newHash
  /\ pending' = (pending \/ (oldHash' # Nothing /\ newHash # oldHash'))
  /\ newHash' = Nothing
  /\ main' = "poll"
  /\ UNCHANGED <<files, reloader, newCert, hangup, served>>

\* It sends SIGHUP if the certificate is not the one it saw last.
Compare ==
  /\ main = "compare"
  /\ pending' = (pending \/ (oldHash # Nothing /\ newHash # oldHash))
  /\ oldHash' = newHash
  /\ newHash' = Nothing
  /\ main' = "poll"
  /\ UNCHANGED <<files, reloader, newCert, hangup, served>>

\* Mutant of Deliver: the channel has no buffer.
DeliverUnbuffered ==
  /\ pending
  /\ \/ reloader = "starting" /\ Fatal
     \/ /\ reloader # "starting"
        /\ pending' = FALSE
        /\ hangup' = (reloader = "waiting")
        /\ UNCHANGED <<files, main, hashes, reloader, newCert, served>>

\* A signal that is not asked for ends the process; others go to the channel,
\* unless it is full.
Deliver ==
  /\ pending
  /\ \/ reloader = "starting" /\ Fatal
     \/ /\ reloader # "starting"
        /\ pending' = FALSE
        /\ hangup' = TRUE
        /\ UNCHANGED <<files, main, hashes, reloader, newCert, served>>

\* The reloader's goroutine: signal.Notify,
AskForSignals ==
  /\ reloader = "starting"
  /\ reloader' = "waiting"
  /\ UNCHANGED <<files, main, hashes, newCert, signals, served>>

\* the loop over the channel,
Receive ==
  /\ reloader = "waiting" /\ hangup
  /\ hangup' = FALSE
  /\ reloader' = "load"
  /\ UNCHANGED <<files, main, hashes, newCert, pending, served>>

\* and maybeReload.  What it loads is stored at once: until it is, handshakes
\* get the pair before it, whatever happens to the files.
ReloadCert ==
  /\ reloader = "load"
  /\ \/ certFile = Nothing /\ Fatal
     \/ /\ certFile # Nothing
        /\ newCert' = certFile
        /\ reloader' = "loadKey"
        /\ UNCHANGED <<files, main, hashes, signals, served>>

ReloadKey ==
  /\ reloader = "loadKey"
  /\ \/ ~KeyMatches /\ Fatal
     \/ /\ KeyMatches
        /\ served' = [cert |-> newCert, key |-> keyFile]
        /\ newCert' = Nothing
        /\ reloader' = "waiting"
        /\ UNCHANGED <<files, main, hashes, signals>>

\* What a handshake is given, under the read lock.
GetCertificate == served

-----------------------------------------------------------------------------

MainStep     == LoadCert \/ LoadKey \/ Poll \/ Compare
ReloaderStep == AskForSignals \/ Receive \/ ReloadCert \/ ReloadKey

Next == Rotate \/ Interrupted \/ Restart \/ MainStep \/ ReloaderStep \/ Deliver

Spec == Init /\ [][Next]_vars

\* Goroutines run, signals arrive and the container is started again.  Who
\* rotates the pair owes nothing.
FairSpec ==
  /\ Spec
  /\ WF_vars(Restart) /\ WF_vars(MainStep) /\ WF_vars(ReloaderStep)
  /\ WF_vars(Deliver)

-----------------------------------------------------------------------------
(* Properties.                                                             *)

\* However files, polls and reloads interleave, no handshake is given the
\* certificate of one pair and the key of another (GetCertificate).
ServedPairMatches == GetCertificate # Nothing => GetCertificate.cert = GetCertificate.key

\* The certificate that is served, or will be once the reloader is done.
Current == IF reloader = "loadKey" THEN newCert ELSE served.cert

\* A reload that has not yet begun to read the files is on its way.
ReloadDue == pending \/ hangup \/ reloader = "load"

\* No rotation goes unnoticed: while the process serves another certificate
\* than that in the file, a reload is due, or main's loop will see that the
\* file is not what it saw last.
RotationIsNoticed ==
  main \in {"poll", "compare"} /\ Current # certFile =>
    \/ ReloadDue
    \/ oldHash # Nothing /\ oldHash # certFile
    \/ oldHash = Nothing /\ main = "compare" /\ newHash # certFile

\* main.go, "watch the cert file and restart http sever if the file updated":
\* once a pair is installed for good, it is served for good, through whatever
\* failures and restarts it takes to get there.
InstalledPairIsServed ==
  <>[]Complete => <>[](served = [cert |-> rotations, key |-> rotations])

=============================================================================
