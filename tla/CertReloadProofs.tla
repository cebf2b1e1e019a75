-------------------------- MODULE CertReloadProofs ---------------------------
(***************************************************************************)
(* Theorems about CertReload, for any number of rotations in any form.     *)
(* What a served pair is needs no more than the types; that a rotation is  *)
(* noticed needs that the hashes main has seen are of certificates already *)
(* written (SeenIsOld), so that a new certificate differs from them, and   *)
(* that nothing happens to the certificate before the first hash is taken  *)
(* (QuietStart), which has to be assumed.                                  *)
(***************************************************************************)
EXTENDS CertReload, TLAPS

\* What exists while the process starts, and while it serves.
Phases ==
  /\ main \in {"down", "load", "loadKey"} =>
       /\ reloader = "none" /\ ~pending /\ ~hangup
       /\ oldHash = Nothing /\ served = Nothing
  /\ main \in {"poll", "compare"} => reloader # "none" /\ served # Nothing
  /\ main = "loadKey" \/ reloader = "loadKey" => newCert # Nothing

SafeInv == TypeOK /\ Phases /\ ServedPairMatches

\* Nothing has been read of a certificate that is still to be written.
SeenIsOld ==
  /\ \A v \in {certFile, oldHash, newHash} : v # Nothing => v <= rotations
  /\ certFile # rotations => oldHash # rotations /\ newHash # rotations

\* Up to the first hash, main serves the certificate in the file.
QuietStart ==
  /\ main = "loadKey" => newCert = certFile
  /\ main = "poll" /\ oldHash = Nothing => ~ReloadDue

NoticeInv == SafeInv /\ SeenIsOld /\ QuietStart /\ RotationIsNoticed

-----------------------------------------------------------------------------

\* A process that starts holds nothing.
LEMMA InitEstablishesSafeInv == Init => SafeInv
<1> SUFFICES ASSUME Init  PROVE SafeInv
  OBVIOUS
<1>1. 0 \in Versions
  BY RotationsAssumption DEF Versions
<1>2. TypeOK
  BY <1>1 DEF Init, TypeOK
<1>3. Phases
  BY DEF Init, Phases
<1>4. ServedPairMatches
  BY DEF Init, ServedPairMatches, GetCertificate
<1> QED  BY <1>2, <1>3, <1>4 DEF SafeInv

\* When the process ends, it holds nothing.
LEMMA FatalKeepsSafeInv ==
  ASSUME SafeInv, Fatal  PROVE SafeInv'
BY NothingAssumption
   DEF SafeInv, TypeOK, Phases, ServedPairMatches, GetCertificate, Fatal, files, Versions

\* No step gives the process a pair that does not match.
LEMMA NextKeepsSafeInv == SafeInv /\ [Next]_vars => SafeInv'
<1> SUFFICES ASSUME SafeInv, [Next]_vars  PROVE SafeInv'
  OBVIOUS
<1> USE NothingAssumption, RotationsAssumption
    DEF SafeInv, Versions
<1>1. ASSUME Rotate  PROVE SafeInv'
  <2>1. TypeOK'
    BY <1>1 DEF TypeOK, Rotate, RotateAtOnce, StartRotation, WriteCert, WriteKey,
                RemoveFile, process, hashes, signals, Pairs
  <2>2. UNCHANGED process
    BY <1>1 DEF Rotate, RotateAtOnce, StartRotation, WriteCert, WriteKey, RemoveFile
  <2> QED  BY <2>1, <2>2 DEF Phases, ServedPairMatches, GetCertificate, process, hashes, signals
<1>2. ASSUME Restart  PROVE SafeInv'
  BY <1>2 DEF Restart, TypeOK, Phases, ServedPairMatches, GetCertificate, files, hashes, signals, Pairs
<1>3. ASSUME LoadCert  PROVE SafeInv'
  BY <1>3, FatalKeepsSafeInv
     DEF LoadCert, TypeOK, Phases, ServedPairMatches, GetCertificate, files, hashes, signals, Pairs
<1>4. ASSUME LoadKey  PROVE SafeInv'
  <2>1. CASE Fatal
    BY <2>1, FatalKeepsSafeInv
  <2>2. CASE KeyMatches /\ served' = [cert |-> newCert, key |-> keyFile]
    <3>1. /\ newCert \in Versions /\ keyFile = newCert
          /\ served' \in Pairs /\ served'.cert = served'.key /\ served' # Nothing
      BY <1>4, <2>2 DEF LoadKey, KeyMatches, TypeOK, Phases, Pairs
    <3>2. TypeOK'
      BY <1>4, <2>2, <3>1 DEF LoadKey, TypeOK, files, hashes, signals
    <3>3. Phases' /\ ServedPairMatches'
      BY <1>4, <2>2, <3>1 DEF LoadKey, Phases, ServedPairMatches, GetCertificate, hashes, signals
    <3> QED  BY <3>2, <3>3
  <2> QED  BY <1>4, <2>1, <2>2 DEF LoadKey
<1>5. ASSUME Poll  PROVE SafeInv'
  BY <1>5, FatalKeepsSafeInv
     DEF Poll, TypeOK, Phases, ServedPairMatches, GetCertificate, files, signals, Pairs
<1>6. ASSUME Compare  PROVE SafeInv'
  BY <1>6 DEF Compare, TypeOK, Phases, ServedPairMatches, GetCertificate, files, Pairs
<1>7. ASSUME AskForSignals \/ Receive  PROVE SafeInv'
  BY <1>7 DEF AskForSignals, Receive, TypeOK, Phases, ServedPairMatches, GetCertificate,
              files, hashes, signals, Pairs
<1>8. ASSUME ReloadCert  PROVE SafeInv'
  BY <1>8, FatalKeepsSafeInv
     DEF ReloadCert, TypeOK, Phases, ServedPairMatches, GetCertificate, files, hashes, signals, Pairs
<1>9. ASSUME ReloadKey  PROVE SafeInv'
  <2>1. CASE Fatal
    BY <2>1, FatalKeepsSafeInv
  <2>2. CASE KeyMatches /\ served' = [cert |-> newCert, key |-> keyFile]
    <3>1. /\ newCert \in Versions /\ keyFile = newCert
          /\ served' \in Pairs /\ served'.cert = served'.key /\ served' # Nothing
      BY <1>9, <2>2 DEF ReloadKey, KeyMatches, TypeOK, Phases, Pairs
    <3>2. TypeOK'
      BY <1>9, <2>2, <3>1 DEF ReloadKey, TypeOK, files, hashes, signals
    <3>3. Phases' /\ ServedPairMatches'
      BY <1>9, <2>2, <3>1 DEF ReloadKey, Phases, ServedPairMatches, GetCertificate, hashes, signals
    <3> QED  BY <3>2, <3>3
  <2> QED  BY <1>9, <2>1, <2>2 DEF ReloadKey
<1>10. ASSUME Deliver  PROVE SafeInv'
  BY <1>10, FatalKeepsSafeInv
     DEF Deliver, TypeOK, Phases, ServedPairMatches, GetCertificate, files, hashes, Pairs
<1>11. ASSUME Interrupted  PROVE SafeInv'
  BY <1>11, FatalKeepsSafeInv DEF Interrupted
<1>12. CASE UNCHANGED vars
  BY <1>12 DEF vars, TypeOK, Phases, ServedPairMatches, GetCertificate, Pairs
<1> QED
  BY <1>1, <1>2, <1>3, <1>4, <1>5, <1>6, <1>7, <1>8, <1>9, <1>10, <1>11, <1>12
     DEF Next, MainStep, ReloaderStep

\* Types and the pair that is served.
THEOREM CertReloadInvariant == Spec => []SafeInv
<1> QED  BY InitEstablishesSafeInv, NextKeepsSafeInv, PTL DEF Spec

\* Types.
COROLLARY CertReloadTypes == Spec => []TypeOK
<1>1. SafeInv => TypeOK
  BY DEF SafeInv
<1> QED  BY <1>1, CertReloadInvariant, PTL

\* No handshake is ever given the certificate of one pair and the key of
\* another, however the files are rotated.
COROLLARY ServedPairIsOnePair == Spec => []ServedPairMatches
<1>1. SafeInv => ServedPairMatches
  BY DEF SafeInv
<1> QED  BY <1>1, CertReloadInvariant, PTL

-----------------------------------------------------------------------------
(* Rotations are noticed.                                                  *)

\* A process that has ended has nothing left to notice.
LEMMA FatalKeepsNoticeInv ==
  ASSUME NoticeInv, Fatal  PROVE NoticeInv'
<1>1. SafeInv'
  BY FatalKeepsSafeInv DEF NoticeInv
<1>2. SeenIsOld' /\ QuietStart' /\ RotationIsNoticed'
  BY NothingAssumption
     DEF NoticeInv, SafeInv, TypeOK, Versions, SeenIsOld, QuietStart,
         RotationIsNoticed, Fatal, files
<1> QED  BY <1>1, <1>2 DEF NoticeInv

\* A file that is written differs from all that was seen before.
LEMMA RotateKeepsNoticeInv ==
  ASSUME "AtStart" \notin Disturbances, NoticeInv, Rotate
  PROVE  NoticeInv'
<1> USE NothingAssumption, RotationsAssumption DEF Versions
<1>1. SafeInv' /\ UNCHANGED process
  BY NextKeepsSafeInv
     DEF NoticeInv, Next, Rotate, RotateAtOnce, StartRotation, WriteCert, WriteKey, RemoveFile
<1>2. \/ UNCHANGED certFile /\ rotations' \in {rotations, rotations + 1}
         /\ (rotations' # rotations => Complete)
      \/ /\ ~FirstHashDue
         /\ \/ rotations' = rotations + 1 /\ certFile' = rotations'
            \/ /\ rotations' = rotations /\ certFile # rotations
               /\ certFile' \in {rotations, Nothing}
  BY DEF Rotate, RotateAtOnce, StartRotation, WriteCert, WriteKey, RemoveFile, CertMayChange
<1>3. SeenIsOld'
  BY <1>1, <1>2
     DEF NoticeInv, SafeInv, TypeOK, SeenIsOld, Complete, process, hashes
<1>4. QuietStart'
  BY <1>1, <1>2
     DEF NoticeInv, QuietStart, FirstHashDue, ReloadDue, process, hashes, signals
<1>5. RotationIsNoticed'
  <2>1. CASE UNCHANGED certFile
    BY <1>1, <2>1
       DEF NoticeInv, RotationIsNoticed, Current, ReloadDue, process, hashes, signals
  <2>2. CASE ~FirstHashDue /\ certFile' # certFile
    <3>1. oldHash # certFile' \/ oldHash = Nothing
      BY <1>2, <2>2 DEF NoticeInv, SafeInv, TypeOK, SeenIsOld
    <3>2. main = "compare" => newHash # certFile'
      BY <1>2, <2>2 DEF NoticeInv, SafeInv, TypeOK, SeenIsOld
    <3> QED
      BY <1>1, <2>2, <3>1, <3>2 DEF RotationIsNoticed, FirstHashDue, process, hashes
  <2> QED  BY <1>2, <2>1, <2>2
<1> QED  BY <1>1, <1>3, <1>4, <1>5 DEF NoticeInv

\* No step of main, of the reloader or of a signal loses track of a rotation.
LEMMA NextKeepsNoticeInv ==
  ASSUME "AtStart" \notin Disturbances
  PROVE  NoticeInv /\ [Next]_vars => NoticeInv'
<1> SUFFICES ASSUME NoticeInv, [Next]_vars  PROVE NoticeInv'
  OBVIOUS
<1> USE NothingAssumption, RotationsAssumption DEF Versions
<1>0. SafeInv /\ SafeInv'
  BY NextKeepsSafeInv DEF NoticeInv
<1>1. ASSUME Fatal  PROVE NoticeInv'
  BY <1>1, FatalKeepsNoticeInv
<1>2. ASSUME Rotate  PROVE NoticeInv'
  BY <1>2, RotateKeepsNoticeInv
<1>3. ASSUME Restart \/ LoadCert  PROVE NoticeInv'
  <2>1. CASE Restart \/ (LoadCert /\ newCert' = certFile /\ main' = "loadKey"
                           /\ UNCHANGED <<files, hashes, reloader, signals, served>>)
    BY <1>0, <2>1
       DEF NoticeInv, SafeInv, TypeOK, SeenIsOld, QuietStart, RotationIsNoticed,
           Restart, LoadCert, files, hashes
  <2> QED  BY <1>1, <1>3, <2>1 DEF LoadCert
<1>4. ASSUME LoadKey  PROVE NoticeInv'
  <2>1. CASE KeyMatches /\ served' = [cert |-> newCert, key |-> keyFile]
    <3>1. SeenIsOld'
      BY <1>4, <2>1 DEF NoticeInv, SeenIsOld, LoadKey, files, hashes, Fatal
    <3>2. ~ReloadDue' /\ served'.cert = certFile /\ reloader' = "starting"
          /\ main' = "poll" /\ certFile' = certFile
      BY <1>0, <1>4, <2>1
         DEF NoticeInv, SafeInv, Phases, QuietStart, LoadKey, ReloadDue, files, signals, Fatal
    <3>3. QuietStart' /\ RotationIsNoticed'
      BY <3>2 DEF QuietStart, RotationIsNoticed, Current
    <3> QED  BY <1>0, <3>1, <3>3 DEF NoticeInv
  <2> QED  BY <1>1, <1>4, <2>1 DEF LoadKey
<1>5. ASSUME Poll  PROVE NoticeInv'
  <2>1. CASE Poll /\ newHash' = certFile /\ main' = "compare" /\ certFile # Nothing
              /\ UNCHANGED <<files, oldHash, reloader, newCert, signals, served>>
    <3>1. SeenIsOld' /\ QuietStart'
      BY <2>1 DEF NoticeInv, SeenIsOld, QuietStart, files
    <3>2. RotationIsNoticed'
      BY <2>1 DEF NoticeInv, RotationIsNoticed, QuietStart, Current, ReloadDue,
                  Poll, files, signals
    <3> QED  BY <1>0, <3>1, <3>2 DEF NoticeInv
  <2> QED  BY <1>1, <1>5, <2>1 DEF Poll
<1>6. ASSUME Compare  PROVE NoticeInv'
  <2>1. newHash # Nothing
    BY <1>6 DEF NoticeInv, SafeInv, TypeOK, Compare
  <2>2. SeenIsOld' /\ QuietStart'
    BY <1>6, <2>1 DEF NoticeInv, SafeInv, TypeOK, SeenIsOld, QuietStart, Compare, files
  <2>3. RotationIsNoticed'
    BY <1>6, <2>1 DEF NoticeInv, RotationIsNoticed, Current, ReloadDue, Compare, files
  <2> QED  BY <1>0, <2>2, <2>3 DEF NoticeInv
<1>7. ASSUME AskForSignals \/ Receive  PROVE NoticeInv'
  <2>1. SeenIsOld' /\ QuietStart'
    BY <1>7 DEF NoticeInv, SeenIsOld, QuietStart, ReloadDue, AskForSignals, Receive,
                files, hashes, signals
  <2>2. RotationIsNoticed'
    BY <1>7 DEF NoticeInv, RotationIsNoticed, Current, ReloadDue, AskForSignals, Receive,
                files, hashes, signals
  <2> QED  BY <1>0, <2>1, <2>2 DEF NoticeInv
<1>8. ASSUME ReloadCert \/ ReloadKey  PROVE NoticeInv'
  <2>1. CASE /\ ReloadCert /\ newCert' = certFile /\ reloader' = "loadKey"
             /\ UNCHANGED <<files, main, hashes, signals, served>>
    <3>1. SeenIsOld' /\ QuietStart'
      BY <1>0, <2>1 DEF NoticeInv, SafeInv, Phases, SeenIsOld, QuietStart, ReloadDue,
                        ReloadCert, files, hashes, signals
    <3>2. RotationIsNoticed'
      BY <2>1 DEF RotationIsNoticed, Current, files
    <3> QED  BY <1>0, <3>1, <3>2 DEF NoticeInv
  <2>2. CASE /\ ReloadKey /\ KeyMatches
             /\ served' = [cert |-> newCert, key |-> keyFile]
             /\ reloader' = "waiting" /\ UNCHANGED <<files, main, hashes, signals>>
    <3>1. SeenIsOld' /\ QuietStart'
      BY <1>0, <2>2 DEF NoticeInv, SafeInv, Phases, SeenIsOld, QuietStart, ReloadDue,
                        ReloadKey, files, hashes, signals
    <3>2. RotationIsNoticed'
      BY <2>2 DEF NoticeInv, RotationIsNoticed, Current, ReloadDue, ReloadKey,
                  files, hashes, signals
    <3> QED  BY <1>0, <3>1, <3>2 DEF NoticeInv
  <2> QED  BY <1>1, <1>8, <2>1, <2>2 DEF ReloadCert, ReloadKey
<1>9. ASSUME Deliver  PROVE NoticeInv'
  <2>1. CASE /\ Deliver /\ pending' = FALSE /\ hangup' = TRUE
             /\ UNCHANGED <<files, main, hashes, reloader, newCert, served>>
    <3>1. SeenIsOld' /\ QuietStart'
      BY <2>1 DEF NoticeInv, SeenIsOld, QuietStart, ReloadDue, Deliver, files, hashes
    <3>2. RotationIsNoticed'
      BY <2>1 DEF RotationIsNoticed, ReloadDue
    <3> QED  BY <1>0, <3>1, <3>2 DEF NoticeInv
  <2> QED  BY <1>1, <1>9, <2>1 DEF Deliver
<1>10. ASSUME Interrupted  PROVE NoticeInv'
  BY <1>10, FatalKeepsNoticeInv DEF Interrupted
<1>11. CASE UNCHANGED vars
  BY <1>0, <1>11 DEF vars, NoticeInv, SeenIsOld, QuietStart, RotationIsNoticed,
                     Current, ReloadDue
<1> QED
  BY <1>2, <1>3, <1>4, <1>5, <1>6, <1>7, <1>8, <1>9, <1>10, <1>11
     DEF Next, MainStep, ReloaderStep

\* No rotation goes unnoticed, unless it comes while the process starts: then a
\* reload is due, or the next poll will ask for one.
THEOREM EveryRotationIsNoticed ==
  ASSUME "AtStart" \notin Disturbances
  PROVE  Spec => []RotationIsNoticed
<1>1. ASSUME Init  PROVE NoticeInv
  <2>1. SafeInv
    BY <1>1, InitEstablishesSafeInv
  <2>2. SeenIsOld /\ QuietStart /\ RotationIsNoticed
    BY <1>1, NothingAssumption DEF Init, SeenIsOld, QuietStart, RotationIsNoticed
  <2> QED  BY <2>1, <2>2 DEF NoticeInv
<1>2. NoticeInv => RotationIsNoticed
  BY DEF NoticeInv
<1> QED  BY <1>1, <1>2, NextKeepsNoticeInv, PTL DEF Spec

=============================================================================
