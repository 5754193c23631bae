-------------------------- MODULE EnrollmentProofs --------------------------
(***************************************************************************)
(* Theorems about Enrollment, for any number of daemons that race on one   *)
(* machine, of enrollments, keys and crashes, with the ticket command at   *)
(* any point.                                                              *)
(***************************************************************************)
EXTENDS Enrollment, TLAPS

\* A process between the creation of the key file and its close.
Creating == {"fill", "sync"}

\* Whoever creates the key file found it missing and made it: until it is done
\* the file is what that process has made of it, and nobody else creates it.
OneCreator ==
    /\ \A p \in Daemons : /\ d[p].pc \in Creating => ticket.pc \notin Creating
                          /\ d[p].pc = "fill" => keyFile = Torn
                          /\ d[p].pc = "sync" => keyFile = d[p].key /\ keyFile \in Keys
    /\ ticket.pc = "fill" => keyFile = Torn
    /\ ticket.pc = "sync" => keyFile \in Keys
    /\ \A p, q \in Daemons :
           d[p].pc \in Creating /\ d[q].pc \in Creating => p = q

\* The states of a token manager that has yet to finish the registration.
Registering == {"register", "wipe", "rename"}

\* No key has been registered, and nobody is about to register one.
NothingRegistered ==
    /\ \A n \in 1..MaxEnrollments : registered[n] = NoKey
    /\ \A p \in Daemons : d[p].tm \notin Registering

\* Others may have read the key that is being created, but it can be taken back.
CreationIsPrivate ==
    (ticket.pc \in Creating \/ \E p \in Daemons : d[p].pc \in Creating) =>
        NothingRegistered

\* A daemon past its enrollment has one, it runs with a key, the enrollment it
\* saves is one, and it has a token only if its key is registered.
SoundMemory(m) ==
    /\ m.pc \notin {"down", "code", "poll", "fetch"} => m.env # 0
    /\ m.pc # "run" => m.tm = "off" /\ m.token = "none"
    /\ m.pc = "run" => m.key \in Keys
    /\ m.tm = "rename" => m.saved # 0
    /\ m.token # "none" => registered[m.env] = m.key

SoundMemories == \A p \in Daemons : SoundMemory(d[p])

\* agent.env, once written, describes an enrollment for good.
EnvPersists ==
    /\ envSecret => env # 0
    /\ \A p \in Daemons : d[p].pc = "publish" => env # 0

\* The inductive invariant.
IInv ==
    /\ TypeOK /\ OneCreator /\ CreationIsPrivate /\ SoundMemories /\ KeyInSync
    /\ OnlyCrashTearsKey /\ EnvPersists /\ EnrolledMeansPersisted

-----------------------------------------------------------------------------

\* Nothing has been written, generated or registered.
LEMMA InitIInv == Init => IInv
<1> SUFFICES ASSUME Init PROVE IInv
  OBVIOUS
<1> USE EnrollmentAssumption DEF Init
<1>1. Blank \in Memory /\ NoTicket \in TicketMemory
  BY DEF Memory, TicketMemory, Blank, NoTicket
<1>2. TypeOK
  <2>1. d \in [Daemons -> Memory] /\ ticket \in TicketMemory
    BY <1>1
  <2>2. registered \in [1..MaxEnrollments -> Keys \cup {NoKey}]
    OBVIOUS
  <2>3. env \in 0..MaxEnrollments /\ issued \in 0..MaxEnrollments
        /\ crashes \in 0..MaxCrashes
    OBVIOUS
  <2>4. /\ envSecret \in BOOLEAN /\ keyFile \in Keys \cup {NoKey, Torn}
        /\ status \in {"none", "awaiting", "error", "enrolled"}
        /\ revoked \in BOOLEAN /\ made \in SUBSET Keys
        /\ orgless \in SUBSET (1..MaxEnrollments)
    OBVIOUS
  <2> QED
    BY <2>1, <2>2, <2>3, <2>4 DEF TypeOK
<1> USE DEF Blank, NoTicket
<1>3. OneCreator /\ CreationIsPrivate /\ OnlyCrashTearsKey
  BY DEF OneCreator, CreationIsPrivate, Creating, OnlyCrashTearsKey
<1>4. KeyInSync /\ SoundMemories
  BY DEF KeyInSync, SoundMemories, SoundMemory
<1>5. EnvPersists /\ EnrolledMeansPersisted
  BY DEF EnvPersists, EnrolledMeansPersisted
<1> QED
  BY <1>2, <1>3, <1>4, <1>5 DEF IInv

\* A step of daemon p that gives its memory the value m.
LEMMA OwnStep ==
    ASSUME TypeOK, NEW p \in Daemons, NEW m \in Memory, d' = [d EXCEPT ![p] = m]
    PROVE  /\ d' \in [Daemons -> Memory]
           /\ d'[p] = m
           /\ \A q \in Daemons : q # p => d'[q] = d[q]
BY DEF TypeOK

\* A daemon with a token works with the key that is registered, and that is the
\* key of the file.
LEMMA TokenMeansKey ==
    ASSUME TypeOK, KeyInSync, NEW m \in Memory, SoundMemory(m), m.token # "none"
    PROVE  /\ m.env \in 1..MaxEnrollments
           /\ m.key \in Keys /\ m.key = keyFile /\ registered[m.env] = m.key
<1>1. /\ m.key \in Keys /\ m.env # 0 /\ m.env \in 0..MaxEnrollments
      /\ registered[m.env] = m.key
  BY DEF SoundMemory, Memory
<1>2. m.env \in 1..MaxEnrollments
  BY <1>1, EnrollmentAssumption
<1> QED
  BY <1>1, <1>2, EnrollmentAssumption DEF KeyInSync

\* With the memory m, daemon p creates the key file if it did before, and
\* registers a key only if it did, the same.
InRole(p, m) ==
    /\ m.pc = "fill" <=> d[p].pc = "fill"
    /\ m.pc = "sync" <=> d[p].pc = "sync"
    /\ m.pc = "sync" \/ m.tm \in Registering => m.key = d[p].key
    /\ m.tm \in Registering => d[p].tm \in Registering
    /\ SoundMemory(m)

\* Moreover it does not get ready to tell the user of an enrollment.
QuietRole(p, m) == InRole(p, m) /\ (m.pc = "publish" => d[p].pc = "publish")

\* A step of a daemon in its role leaves the key in order.
LEMMA KeyUntouched ==
    ASSUME IInv, NEW p \in Daemons, NEW m \in Memory, d' = [d EXCEPT ![p] = m],
           InRole(p, m), UNCHANGED <<keyFile, registered, crashes, ticket>>
    PROVE  /\ d' \in [Daemons -> Memory]
           /\ d'[p] = m /\ \A q \in Daemons : q # p => d'[q] = d[q]
           /\ OneCreator' /\ CreationIsPrivate' /\ SoundMemories' /\ KeyInSync'
           /\ OnlyCrashTearsKey'
<1>1. TypeOK /\ OneCreator /\ CreationIsPrivate /\ SoundMemories /\ KeyInSync
      /\ OnlyCrashTearsKey
  BY DEF IInv
<1>2. /\ d' \in [Daemons -> Memory] /\ d'[p] = m
      /\ \A q \in Daemons : q # p => d'[q] = d[q]
  BY <1>1, OwnStep
<1>3. \A q \in Daemons :
          /\ d'[q].pc = "fill" <=> d[q].pc = "fill"
          /\ d'[q].pc = "sync" <=> d[q].pc = "sync"
          /\ d'[q].pc = "sync" \/ d'[q].tm \in Registering => d'[q].key = d[q].key
          /\ d'[q].tm \in Registering => d[q].tm \in Registering
          /\ SoundMemory(d'[q]) /\ d'[q] \in Memory
  BY <1>1, <1>2 DEF InRole, SoundMemories
<1>4. OneCreator'
  BY <1>1, <1>3 DEF OneCreator, Creating
<1>5. CreationIsPrivate'
  BY <1>1, <1>3 DEF CreationIsPrivate, NothingRegistered, Creating
<1>6. SoundMemories'
  BY <1>3 DEF SoundMemories, SoundMemory
<1>7. KeyInSync'
  <2>1. \A q \in Daemons : d'[q].token # "none" => d'[q].key = keyFile
    BY <1>1, <1>3, TokenMeansKey
  <2> QED
    BY <1>1, <1>3, <2>1 DEF KeyInSync, Registering
<1>8. OnlyCrashTearsKey'
  BY <1>1, <1>3 DEF OnlyCrashTearsKey
<1> QED
  BY <1>2, <1>4, <1>5, <1>6, <1>7, <1>8

\* Most steps of a daemon change its memory, and no file but perhaps the status.
LEMMA QuietStep ==
    ASSUME IInv, NEW p \in Daemons, NEW m \in Memory, d' = [d EXCEPT ![p] = m],
           QuietRole(p, m),
           UNCHANGED <<env, envSecret, keyFile, registered, revoked, made,
                       crashes, ticket>>,
           status' \in {status, "awaiting", "error"}, issued' \in 0..MaxEnrollments,
           orgless' \in SUBSET (1..MaxEnrollments)
    PROVE  IInv'
<1>1. TypeOK /\ EnvPersists /\ EnrolledMeansPersisted
  BY DEF IInv
<1>2. /\ d' \in [Daemons -> Memory]
      /\ d'[p] = m /\ \A q \in Daemons : q # p => d'[q] = d[q]
      /\ OneCreator' /\ CreationIsPrivate' /\ SoundMemories' /\ KeyInSync'
      /\ OnlyCrashTearsKey'
  BY KeyUntouched DEF QuietRole
<1>3. TypeOK'
  BY <1>1, <1>2 DEF TypeOK
<1>4. EnvPersists' /\ EnrolledMeansPersisted'
  BY <1>1, <1>2 DEF EnvPersists, EnrolledMeansPersisted, QuietRole
<1> QED
  BY <1>2, <1>3, <1>4 DEF IInv

\* A daemon that ends, unless it creates the key file.
LEMMA DeadStep ==
    ASSUME IInv, NEW p \in Daemons, d[p].pc \notin Creating, d' = Dead(p),
           UNCHANGED <<files, app, made, crashes, ticket>>
    PROVE  IInv'
<1>1. Blank \in Memory /\ QuietRole(p, Blank)
  BY EnrollmentAssumption
     DEF Blank, Memory, QuietRole, InRole, SoundMemory, Creating, Registering
<1>2. d' = [d EXCEPT ![p] = Blank]
  BY DEF Dead
<1>3. issued \in 0..MaxEnrollments /\ orgless \in SUBSET (1..MaxEnrollments)
  BY DEF IInv, TypeOK
<1> QED
  BY <1>1, <1>2, <1>3, QuietStep DEF files, app

-----------------------------------------------------------------------------
(* Self-enrollment *)

\* agent.env is written.
LEMMA WriteEnvIInv ==
    ASSUME IInv, NEW p \in Daemons, WriteEnv(p)
    PROVE  IInv'
<1> DEFINE m == [d[p] EXCEPT !.pc = "publish"]
<1>1. TypeOK /\ SoundMemories /\ EnvPersists /\ EnrolledMeansPersisted
  BY DEF IInv
<1>2. d[p] \in Memory /\ d[p].pc = "write" /\ d[p].env # 0 /\ SoundMemory(d[p])
  BY <1>1 DEF WriteEnv, TypeOK, SoundMemories, SoundMemory
<1>3. m \in Memory /\ InRole(p, m)
  BY <1>2 DEF Memory, InRole, SoundMemory, Registering
<1>4. d' = [d EXCEPT ![p] = m]
  BY DEF WriteEnv
<1>5. /\ env' = d[p].env /\ envSecret' = d[p].secret
      /\ UNCHANGED <<keyFile, status, app, made, crashes, ticket>>
  BY DEF WriteEnv
<1> HIDE DEF m
<1>6. /\ d' \in [Daemons -> Memory]
      /\ OneCreator' /\ CreationIsPrivate' /\ SoundMemories' /\ KeyInSync'
      /\ OnlyCrashTearsKey'
  BY <1>3, <1>4, <1>5, KeyUntouched DEF app
<1>7. env' \in 0..MaxEnrollments /\ envSecret' \in BOOLEAN /\ env' # 0
  BY <1>2, <1>5 DEF Memory
<1>8. TypeOK'
  BY <1>1, <1>5, <1>6, <1>7 DEF TypeOK, app
<1>9. EnvPersists' /\ EnrolledMeansPersisted'
  BY <1>7 DEF EnvPersists, EnrolledMeansPersisted
<1> QED
  BY <1>6, <1>8, <1>9 DEF IInv

\* The user is told, as agent.env has been written.
LEMMA PublishIInv ==
    ASSUME IInv, NEW p \in Daemons, PublishEnrolled(p)
    PROVE  IInv'
<1> DEFINE m == [d[p] EXCEPT !.pc = "key"]
<1>1. TypeOK /\ SoundMemories /\ EnvPersists /\ EnrolledMeansPersisted
  BY DEF IInv
<1>2. d[p] \in Memory /\ d[p].pc = "publish" /\ env # 0 /\ SoundMemory(d[p])
  BY <1>1 DEF PublishEnrolled, TypeOK, EnvPersists, SoundMemories
<1>3. m \in Memory /\ InRole(p, m)
  BY <1>2 DEF Memory, InRole, SoundMemory, Registering
<1>4. d' = [d EXCEPT ![p] = m]
  BY DEF PublishEnrolled
<1>5. /\ status' \in {status, "enrolled"}
      /\ UNCHANGED <<env, envSecret, keyFile, app, made, crashes, ticket>>
  BY DEF PublishEnrolled
<1> HIDE DEF m
<1>6. /\ d' \in [Daemons -> Memory]
      /\ OneCreator' /\ CreationIsPrivate' /\ SoundMemories' /\ KeyInSync'
      /\ OnlyCrashTearsKey'
  BY <1>3, <1>4, <1>5, KeyUntouched DEF app
<1>7. TypeOK'
  BY <1>1, <1>5, <1>6 DEF TypeOK, app
<1>8. EnvPersists' /\ EnrolledMeansPersisted'
  BY <1>2, <1>5 DEF EnvPersists, EnrolledMeansPersisted
<1> QED
  BY <1>6, <1>7, <1>8 DEF IInv

\* The steps up to an agent.env that describes the device.
LEMMA EnrolIInv ==
    ASSUME IInv, NEW p \in Daemons, Enrol(p)
    PROVE  IInv'
<1> USE EnrollmentAssumption DEF files, app
<1>1. TypeOK /\ SoundMemories /\ EnvPersists
  BY DEF IInv
<1>2. /\ d[p] \in Memory /\ env \in 0..MaxEnrollments /\ envSecret \in BOOLEAN
      /\ issued \in 0..MaxEnrollments
      /\ orgless \in SUBSET (1..MaxEnrollments) /\ SoundMemory(d[p])
  BY <1>1 DEF TypeOK, SoundMemories, EnvPersists
<1>3. CASE Boot(p)
  <2> DEFINE m == [d[p] EXCEPT !.pc = IF IsEnrolled THEN "key" ELSE "code",
                          !.env = env, !.secret = envSecret]
  <2>1. m \in Memory /\ QuietRole(p, m)
    BY <1>2, <1>3
       DEF Boot, IsEnrolled, Memory, QuietRole, InRole, SoundMemory, Registering
  <2>2. d' = [d EXCEPT ![p] = m]
    BY <1>3 DEF Boot
  <2> HIDE DEF m
  <2> QED
    BY <1>2, <1>3, <2>1, <2>2, QuietStep DEF Boot
<1>4. CASE RequestCode(p)
  <2> DEFINE m == [d[p] EXCEPT !.pc = "poll"]
  <2>1. m \in Memory /\ QuietRole(p, m)
    BY <1>2, <1>4
       DEF RequestCode, Memory, QuietRole, InRole, SoundMemory, Registering
  <2>2. d' = [d EXCEPT ![p] = m]
    BY <1>4 DEF RequestCode
  <2> HIDE DEF m
  <2> QED
    BY <1>2, <1>4, <2>1, <2>2, QuietStep DEF RequestCode
<1>5. CASE RequestCodeFails(p)
  <2> DEFINE m == d[p]
  <2>1. m \in Memory /\ QuietRole(p, m)
    BY <1>2 DEF Memory, QuietRole, InRole, SoundMemory, Registering
  <2>2. d' = [d EXCEPT ![p] = m]
    BY <1>1, <1>5 DEF RequestCodeFails, TypeOK
  <2> HIDE DEF m
  <2> QED
    BY <1>2, <1>5, <2>1, <2>2, QuietStep DEF RequestCodeFails
<1>6. CASE PollRefused(p)
  <2> DEFINE m == [d[p] EXCEPT !.pc = "code"]
  <2>1. m \in Memory /\ QuietRole(p, m)
    BY <1>2, <1>6
       DEF PollRefused, Memory, QuietRole, InRole, SoundMemory, Registering
  <2>2. d' = [d EXCEPT ![p] = m]
    BY <1>6 DEF PollRefused
  <2> HIDE DEF m
  <2> QED
    BY <1>2, <1>6, <2>1, <2>2, QuietStep DEF PollRefused
<1>7. CASE PollApproved(p)
  <2> DEFINE m == [d[p] EXCEPT !.pc = "fetch"]
  <2>1. m \in Memory /\ QuietRole(p, m)
    BY <1>2, <1>7
       DEF PollApproved, Memory, QuietRole, InRole, SoundMemory, Registering
  <2>2. d' = [d EXCEPT ![p] = m]
    BY <1>7 DEF PollApproved
  <2> HIDE DEF m
  <2> QED
    BY <1>2, <1>7, <2>1, <2>2, QuietStep DEF PollApproved
<1>8. CASE FetchEnrollment(p)
  <2>1. PICK given \in BOOLEAN :
            d' = [d EXCEPT ![p].pc = "write", ![p].env = issued + 1,
                           ![p].secret = given]
    BY <1>8 DEF FetchEnrollment
  <2> DEFINE m == [d[p] EXCEPT !.pc = "write", !.env = issued + 1, !.secret = given]
  <2>2. /\ issued + 1 \in 1..MaxEnrollments /\ issued + 1 \in 0..MaxEnrollments
        /\ issued + 1 # 0 /\ d[p].pc = "fetch"
    BY <1>2, <1>8 DEF FetchEnrollment
  <2>3. m \in Memory /\ QuietRole(p, m)
    BY <1>2, <2>2 DEF Memory, QuietRole, InRole, SoundMemory, Registering
  <2>4. d' = [d EXCEPT ![p] = m]
    BY <2>1
  <2> HIDE DEF m
  <2> QED
    BY <1>2, <1>8, <2>2, <2>3, <2>4, QuietStep DEF FetchEnrollment
<1>9. CASE EnrollmentFails(p) \/ WriteEnvFails(p)
  BY <1>9, DeadStep DEF EnrollmentFails, WriteEnvFails, Creating
<1>10. CASE WriteEnv(p)
  BY <1>10, WriteEnvIInv
<1>11. CASE PublishEnrolled(p)
  BY <1>11, PublishIInv
<1> QED
  BY <1>3, <1>4, <1>5, <1>6, <1>7, <1>8, <1>9, <1>10, <1>11 DEF Enrol

-----------------------------------------------------------------------------
(* The device key *)

\* Without a complete key in the file nothing is registered.
LEMMA NoKeyNobody ==
    ASSUME IInv, keyFile \notin Keys
    PROVE  NothingRegistered
<1>1. TypeOK /\ KeyInSync /\ SoundMemories
  BY DEF IInv
<1>2. \A n \in 1..MaxEnrollments : registered[n] = NoKey
  BY <1>1 DEF TypeOK, KeyInSync
<1>3. ASSUME NEW p \in Daemons, d[p].tm \in Registering PROVE FALSE
  <2>1. d[p].pc = "run"
    BY <1>1, <1>3 DEF SoundMemories, SoundMemory, Registering
  <2>2. d[p].key \in Keys /\ d[p].key = keyFile
    BY <1>1, <1>3, <2>1 DEF SoundMemories, SoundMemory, KeyInSync, Registering
  <2> QED
    BY <2>2
<1> QED
  BY <1>2, <1>3 DEF NothingRegistered

\* As long as nothing is registered the key file may change: a daemon p whose
\* memory becomes m neither registers nor has a token, and nobody else does.
LEMMA KeyFileStep ==
    ASSUME IInv, NothingRegistered,
           TypeOK', OneCreator', OnlyCrashTearsKey',
           UNCHANGED <<env, envSecret, status, registered>>,
           \A q \in Daemons :
               \/ d'[q] = d[q]
               \/ /\ d'[q].tm = "off" /\ d'[q].token = "none"
                  /\ d'[q].pc \notin {"run", "publish"} /\ SoundMemory(d'[q])
    PROVE  IInv'
<1> USE EnrollmentAssumption
<1>1. TypeOK /\ SoundMemories /\ KeyInSync /\ EnvPersists /\ EnrolledMeansPersisted
  BY DEF IInv
<1>2. SoundMemories'
  BY <1>1 DEF SoundMemories, SoundMemory
<1>3. \A q \in Daemons : d'[q].tm \notin Registering
  BY DEF NothingRegistered, Registering
<1>4. NothingRegistered'
  BY <1>3 DEF NothingRegistered
<1>5. \A q \in Daemons : d'[q].token = "none"
  <2> SUFFICES ASSUME NEW q \in Daemons, d'[q] = d[q], d[q].token # "none" PROVE FALSE
    OBVIOUS
  <2>1. d[q] \in Memory /\ SoundMemory(d[q])
    BY <1>1 DEF TypeOK, SoundMemories
  <2>2. /\ d[q].env \in 1..MaxEnrollments
        /\ registered[d[q].env] = d[q].key /\ d[q].key \in Keys
    BY <1>1, <2>1, TokenMeansKey
  <2> QED
    BY <2>2 DEF NothingRegistered
<1>6. KeyInSync'
  BY <1>3, <1>4, <1>5 DEF KeyInSync, NothingRegistered, Registering
<1>7. CreationIsPrivate'
  BY <1>4 DEF CreationIsPrivate
<1>8. EnvPersists' /\ EnrolledMeansPersisted'
  BY <1>1 DEF EnvPersists, EnrolledMeansPersisted
<1> QED
  BY <1>2, <1>6, <1>7, <1>8 DEF IInv

\* O_CREATE|O_EXCL lets one process through.
LEMMA CreateKeyFileIInv ==
    ASSUME IInv, NEW p \in Daemons, CreateKeyFile(p)
    PROVE  IInv'
<1> USE EnrollmentAssumption
<1>1. TypeOK /\ OneCreator /\ SoundMemories
  BY DEF IInv
<1>2. d[p] \in Memory /\ d[p].pc = "open" /\ SoundMemory(d[p])
  BY <1>1 DEF CreateKeyFile, TypeOK, SoundMemories
<1>3. CASE keyFile # NoKey
  <2>1. d' = Dead(p) /\ UNCHANGED <<files, app, made, crashes, ticket>>
    BY <1>3 DEF CreateKeyFile, files
  <2> QED
    BY <1>2, <2>1, DeadStep DEF Creating
<1>4. CASE keyFile = NoKey
  <2> DEFINE m == [d[p] EXCEPT !.pc = "fill"]
  <2>1. m \in Memory /\ m.pc = "fill" /\ m.tm = "off" /\ m.token = "none"
        /\ SoundMemory(m)
    BY <1>2 DEF Memory, SoundMemory
  <2>2. /\ d' = [d EXCEPT ![p] = m] /\ keyFile' = Torn
        /\ UNCHANGED <<env, envSecret, status, app, made, crashes, ticket>>
    BY <1>4 DEF CreateKeyFile
  <2> HIDE DEF m
  <2>3. /\ d' \in [Daemons -> Memory] /\ d'[p] = m
        /\ \A q \in Daemons : q # p => d'[q] = d[q]
    BY <1>1, <2>1, <2>2, OwnStep
  <2>4. TypeOK'
    BY <1>1, <2>2, <2>3 DEF TypeOK, app
  <2>5. ticket.pc \notin Creating /\ \A q \in Daemons : d[q].pc \notin Creating
    BY <1>1, <1>4 DEF OneCreator, Creating
  <2>6. OneCreator'
    BY <2>1, <2>2, <2>3, <2>5 DEF OneCreator, Creating
  <2>7. OnlyCrashTearsKey'
    BY <2>1, <2>3 DEF OnlyCrashTearsKey
  <2>8. NothingRegistered
    BY <1>4, NoKeyNobody
  <2> QED
    BY <2>1, <2>2, <2>3, <2>4, <2>6, <2>7, <2>8, KeyFileStep DEF app
<1> QED
  BY <1>3, <1>4

\* The one process that made the file writes the key.
LEMMA FillKeyFileIInv ==
    ASSUME IInv, NEW p \in Daemons, FillKeyFile(p)
    PROVE  IInv'
<1> USE EnrollmentAssumption
<1>1. TypeOK /\ OneCreator /\ CreationIsPrivate /\ SoundMemories
  BY DEF IInv
<1>2. d[p] \in Memory /\ d[p].pc = "fill" /\ SoundMemory(d[p])
  BY <1>1 DEF FillKeyFile, TypeOK, SoundMemories
<1>3. PICK k \in Keys \ made :
          /\ keyFile' = k /\ made' = made \cup {k}
          /\ d' = [d EXCEPT ![p].pc = "sync", ![p].key = k]
  BY DEF FillKeyFile
<1> DEFINE m == [d[p] EXCEPT !.pc = "sync", !.key = k]
<1>4. m \in Memory /\ m.pc = "sync" /\ m.key = k /\ m.tm = "off" /\ m.token = "none"
      /\ SoundMemory(m)
  BY <1>2 DEF Memory, SoundMemory
<1>5. d' = [d EXCEPT ![p] = m]
  BY <1>3
<1>6. UNCHANGED <<env, envSecret, status, app, crashes, ticket>>
  BY DEF FillKeyFile
<1> HIDE DEF m
<1>7. /\ d' \in [Daemons -> Memory] /\ d'[p] = m
      /\ \A q \in Daemons : q # p => d'[q] = d[q]
  BY <1>1, <1>4, <1>5, OwnStep
<1>8. TypeOK'
  BY <1>1, <1>3, <1>6, <1>7 DEF TypeOK, app
<1>9. ticket.pc \notin Creating
      /\ \A q \in Daemons : q # p => d[q].pc \notin Creating
  BY <1>1, <1>2 DEF OneCreator, Creating
<1>10. OneCreator' /\ OnlyCrashTearsKey'
  BY <1>3, <1>4, <1>6, <1>7, <1>9 DEF OneCreator, OnlyCrashTearsKey, Creating
<1>11. NothingRegistered
  BY <1>1, <1>2 DEF CreationIsPrivate, Creating
<1> QED
  BY <1>4, <1>6, <1>7, <1>8, <1>10, <1>11, KeyFileStep DEF app

\* The file has been closed: now the daemon registers the key, or has no secret
\* to do so.
LEMMA SyncKeyFileIInv ==
    ASSUME IInv, NEW p \in Daemons, SyncKeyFile(p)
    PROVE  IInv'
<1> USE EnrollmentAssumption
<1> DEFINE m == [d[p] EXCEPT !.pc = "run", !.conn = "wait",
                     !.tm = IF d[p].secret THEN "register" ELSE "stopped"]
<1>1. TypeOK /\ OneCreator /\ CreationIsPrivate /\ SoundMemories /\ KeyInSync
      /\ OnlyCrashTearsKey /\ EnvPersists /\ EnrolledMeansPersisted
  BY DEF IInv
<1>2. d[p] \in Memory /\ d[p].pc = "sync" /\ SoundMemory(d[p])
  BY <1>1 DEF SyncKeyFile, TypeOK, SoundMemories
<1>3. /\ keyFile = d[p].key /\ keyFile \in Keys /\ ticket.pc \notin Creating
      /\ \A q \in Daemons : q # p => d[q].pc \notin Creating
  BY <1>1, <1>2 DEF OneCreator, Creating
<1>4. m \in Memory /\ m.pc = "run" /\ m.key = keyFile /\ m.token = "none"
      /\ SoundMemory(m)
  BY <1>2, <1>3 DEF Memory, SoundMemory
<1>5. d' = [d EXCEPT ![p] = m] /\ UNCHANGED <<files, app, made, crashes, ticket>>
  BY <1>2 DEF SyncKeyFile, Running, Memory
<1> HIDE DEF m
<1>6. /\ d' \in [Daemons -> Memory] /\ d'[p] = m
      /\ \A q \in Daemons : q # p => d'[q] = d[q]
  BY <1>1, <1>4, <1>5, OwnStep
<1>7. TypeOK'
  BY <1>1, <1>5, <1>6 DEF TypeOK, app, files
<1>8. OneCreator' /\ CreationIsPrivate'
  BY <1>3, <1>4, <1>5, <1>6 DEF OneCreator, CreationIsPrivate, Creating
<1>9. SoundMemories'
  BY <1>1, <1>4, <1>5, <1>6 DEF SoundMemories, SoundMemory, app
<1>10. KeyInSync'
  BY <1>1, <1>4, <1>5, <1>6 DEF KeyInSync, app, files
<1>11. OnlyCrashTearsKey'
  BY <1>3, <1>5 DEF OnlyCrashTearsKey, files
<1>12. EnvPersists' /\ EnrolledMeansPersisted'
  BY <1>1, <1>4, <1>5, <1>6 DEF EnvPersists, EnrolledMeansPersisted, files
<1> QED
  BY <1>7, <1>8, <1>9, <1>10, <1>11, <1>12 DEF IInv

\* Or the write, the sync or the close fails, and the file is removed: whoever
\* has read the key by then has not registered it.
LEMMA FillKeyFileFailsIInv ==
    ASSUME IInv, NEW p \in Daemons, FillKeyFileFails(p)
    PROVE  IInv'
<1> USE EnrollmentAssumption
<1>1. TypeOK /\ OneCreator /\ CreationIsPrivate
  BY DEF IInv
<1>2. /\ d[p].pc \in Creating /\ keyFile' = NoKey /\ d' = [d EXCEPT ![p] = Blank]
      /\ UNCHANGED <<env, envSecret, status, app, made, crashes, ticket>>
  BY DEF FillKeyFileFails, Dead, Creating
<1>3. Blank \in Memory /\ Blank.pc = "down" /\ Blank.tm = "off" /\ Blank.token = "none"
      /\ SoundMemory(Blank)
  BY DEF Blank, Memory, SoundMemory
<1>4. /\ d' \in [Daemons -> Memory] /\ d'[p] = Blank
      /\ \A q \in Daemons : q # p => d'[q] = d[q]
  BY <1>1, <1>2, <1>3, OwnStep
<1>5. TypeOK'
  BY <1>1, <1>2, <1>4 DEF TypeOK, app
<1>6. ticket.pc \notin Creating
      /\ \A q \in Daemons : q # p => d[q].pc \notin Creating
  BY <1>1, <1>2 DEF OneCreator
<1>7. OneCreator' /\ OnlyCrashTearsKey'
  BY <1>2, <1>3, <1>4, <1>6 DEF OneCreator, OnlyCrashTearsKey, Creating
<1>8. NothingRegistered
  BY <1>1, <1>2 DEF CreationIsPrivate
<1> QED
  BY <1>2, <1>3, <1>4, <1>5, <1>7, <1>8, KeyFileStep DEF app

\* loadOrCreateIdentity.
LEMMA IdentifyIInv ==
    ASSUME IInv, NEW p \in Daemons, Identify(p)
    PROVE  IInv'
<1> USE EnrollmentAssumption DEF files, app
<1>1. TypeOK /\ SoundMemories /\ EnvPersists
  BY DEF IInv
<1>2. /\ d[p] \in Memory /\ env \in 0..MaxEnrollments /\ envSecret \in BOOLEAN
      /\ issued \in 0..MaxEnrollments
      /\ orgless \in SUBSET (1..MaxEnrollments) /\ SoundMemory(d[p])
      /\ envSecret => env # 0
  BY <1>1 DEF TypeOK, SoundMemories, EnvPersists
<1>3. CASE ReadKey(p)
  <2>1. CASE keyFile = Torn
    BY <1>3, <2>1, DeadStep DEF ReadKey, Creating
  <2>2. CASE keyFile # Torn
    <3> DEFINE m == [d[p] EXCEPT !.pc = "run", !.key = keyFile, !.conn = "wait",
                                 !.tm = "acquire"]
    <3>1. keyFile \in Keys
      BY <1>1, <1>3, <2>2 DEF ReadKey, TypeOK
    <3>2. m \in Memory /\ QuietRole(p, m)
      BY <1>2, <1>3, <3>1
         DEF ReadKey, Memory, QuietRole, InRole, SoundMemory, Registering
    <3>3. d' = [d EXCEPT ![p] = m]
      BY <1>3, <2>2 DEF ReadKey, Running
    <3> HIDE DEF m
    <3> QED
      BY <1>2, <1>3, <3>2, <3>3, QuietStep DEF ReadKey
  <2> QED
    BY <2>1, <2>2
<1>4. CASE NoKeyYet(p)
  <2> DEFINE m == [d[p] EXCEPT !.pc = "open"]
  <2>1. m \in Memory /\ QuietRole(p, m)
    BY <1>2, <1>4
       DEF NoKeyYet, Memory, QuietRole, InRole, SoundMemory, Registering
  <2>2. d' = [d EXCEPT ![p] = m]
    BY <1>4 DEF NoKeyYet
  <2> HIDE DEF m
  <2> QED
    BY <1>2, <1>4, <2>1, <2>2, QuietStep DEF NoKeyYet
<1>5. CASE IdentityFails(p)
  BY <1>5, DeadStep DEF IdentityFails, Creating
<1>6. CASE CreateKeyFile(p)
  BY <1>6, CreateKeyFileIInv
<1>7. CASE FillKeyFile(p)
  BY <1>7, FillKeyFileIInv
<1>8. CASE SyncKeyFile(p)
  BY <1>8, SyncKeyFileIInv
<1>9. CASE FillKeyFileFails(p)
  BY <1>9, FillKeyFileFailsIInv
<1> QED
  BY <1>3, <1>4, <1>5, <1>6, <1>7, <1>8, <1>9 DEF Identify

-----------------------------------------------------------------------------
(* The token manager and the connection *)

\* What is registered is the key the daemon works with, and nobody creates
\* another at that time.
LEMMA RegisterKeyIInv ==
    ASSUME IInv, NEW p \in Daemons, RegisterKey(p)
    PROVE  IInv'
<1> USE EnrollmentAssumption
<1>1. TypeOK /\ OneCreator /\ CreationIsPrivate /\ SoundMemories /\ KeyInSync
      /\ OnlyCrashTearsKey /\ EnvPersists /\ EnrolledMeansPersisted
  BY DEF IInv
<1>2. PICK next \in {"wipe", "acquire"} : d' = [d EXCEPT ![p].tm = next]
  BY DEF RegisterKey
<1>3. d[p] \in Memory /\ d[p].tm = "register" /\ SoundMemory(d[p])
  BY <1>1 DEF TypeOK, SoundMemories, RegisterKey
<1>4. d[p].pc = "run" /\ d[p].key \in Keys /\ d[p].key = keyFile
      /\ d[p].env # 0 /\ d[p].env \in 1..MaxEnrollments
  <2>1. d[p].pc = "run"
    BY <1>3 DEF SoundMemory
  <2>2. d[p].key \in Keys /\ d[p].env # 0
    BY <1>3, <2>1 DEF SoundMemory
  <2>3. d[p].key = keyFile
    BY <1>1, <1>3 DEF KeyInSync
  <2> QED
    BY <1>3, <2>1, <2>2, <2>3 DEF Memory
<1> DEFINE m == [d[p] EXCEPT !.tm = next]
<1>5. m \in Memory /\ m.pc = "run" /\ m.key = d[p].key /\ m.env = d[p].env
      /\ m.token = d[p].token /\ m.tm = next
  BY <1>3, <1>4 DEF Memory
<1>6. d' = [d EXCEPT ![p] = m]
  BY <1>2
<1> HIDE DEF m
<1>7. /\ registered' = [registered EXCEPT ![d[p].env] = d[p].key]
      /\ registered[d[p].env] = NoKey
      /\ UNCHANGED <<files, issued, orgless, revoked, made, crashes, ticket>>
  BY DEF RegisterKey
<1>8. /\ d' \in [Daemons -> Memory] /\ d'[p] = m
      /\ \A q \in Daemons : q # p => d'[q] = d[q]
  BY <1>1, <1>5, <1>6, OwnStep
<1>9. /\ registered' \in [1..MaxEnrollments -> Keys \cup {NoKey}]
      /\ \A n \in 1..MaxEnrollments : registered'[n] \in {registered[n], keyFile}
      /\ \A n \in 1..MaxEnrollments : registered[n] # NoKey => registered'[n] = registered[n]
  BY <1>1, <1>4, <1>7 DEF TypeOK
<1>10. TypeOK'
  BY <1>1, <1>7, <1>8, <1>9 DEF TypeOK, files
<1>11. ticket.pc \notin Creating /\ \A q \in Daemons : d[q].pc \notin Creating
  BY <1>1, <1>3 DEF CreationIsPrivate, NothingRegistered, Registering
<1>12. OneCreator' /\ CreationIsPrivate'
  BY <1>5, <1>7, <1>8, <1>11 DEF OneCreator, CreationIsPrivate, Creating
<1>13. OnlyCrashTearsKey'
  BY <1>4, <1>7 DEF OnlyCrashTearsKey, files
<1>14. SoundMemories'
  <2>1. \A q \in Daemons : d[q].token # "none" => registered'[d[q].env] = d[q].key
    <3> SUFFICES ASSUME NEW q \in Daemons, d[q].token # "none"
                 PROVE  registered'[d[q].env] = d[q].key
      OBVIOUS
    <3>1. d[q] \in Memory /\ SoundMemory(d[q])
      BY <1>1 DEF TypeOK, SoundMemories
    <3>2. /\ d[q].env \in 1..MaxEnrollments /\ d[q].key \in Keys
          /\ registered[d[q].env] = d[q].key
      BY <1>1, <3>1, TokenMeansKey
    <3> QED
      BY <1>9, <3>2
  <2>2. \A q \in Daemons : q # p => SoundMemory(d[q])'
    BY <1>1, <1>8, <2>1 DEF SoundMemories, SoundMemory
  <2>3. SoundMemory(d[p])'
    BY <1>4, <1>5, <1>8, <2>1 DEF SoundMemory
  <2> QED
    BY <2>2, <2>3 DEF SoundMemories
<1>15. KeyInSync'
  BY <1>1, <1>4, <1>5, <1>7, <1>8, <1>9 DEF KeyInSync, files
<1>16. EnvPersists' /\ EnrolledMeansPersisted'
  BY <1>1, <1>5, <1>7, <1>8 DEF EnvPersists, EnrolledMeansPersisted, files
<1> QED
  BY <1>10, <1>12, <1>13, <1>14, <1>15, <1>16 DEF IInv

\* agent.env is replaced by what was read from it, without the secret.
LEMMA WipeRenamesIInv ==
    ASSUME IInv, NEW p \in Daemons, WipeRenames(p)
    PROVE  IInv'
<1> DEFINE m == [d[p] EXCEPT !.tm = "acquire", !.saved = 0]
<1>1. TypeOK /\ SoundMemories /\ EnvPersists /\ EnrolledMeansPersisted
  BY DEF IInv
<1>2. d[p] \in Memory /\ d[p].tm = "rename" /\ d[p].saved # 0 /\ SoundMemory(d[p])
  BY <1>1 DEF WipeRenames, TypeOK, SoundMemories, SoundMemory
<1>3. 0 \in 0..MaxEnrollments
  BY EnrollmentAssumption
<1>4. m \in Memory /\ InRole(p, m)
  BY <1>2, <1>3 DEF Memory, InRole, SoundMemory, Registering
<1>5. d' = [d EXCEPT ![p] = m]
  BY DEF WipeRenames
<1>6. /\ env' = d[p].saved /\ envSecret' = FALSE
      /\ UNCHANGED <<keyFile, status, app, made, crashes, ticket>>
  BY DEF WipeRenames
<1> HIDE DEF m
<1>7. /\ d' \in [Daemons -> Memory]
      /\ OneCreator' /\ CreationIsPrivate' /\ SoundMemories' /\ KeyInSync'
      /\ OnlyCrashTearsKey'
  BY <1>4, <1>5, <1>6, KeyUntouched DEF app
<1>8. env' \in 0..MaxEnrollments /\ env' # 0
  BY <1>2, <1>6 DEF Memory
<1>9. TypeOK'
  BY <1>1, <1>6, <1>7, <1>8 DEF TypeOK, app
<1>10. EnvPersists' /\ EnrolledMeansPersisted'
  BY <1>6, <1>8 DEF EnvPersists, EnrolledMeansPersisted
<1> QED
  BY <1>7, <1>9, <1>10 DEF IInv

\* runTokenManager.
LEMMA ManageIInv ==
    ASSUME IInv, NEW p \in Daemons, Manage(p)
    PROVE  IInv'
<1> USE EnrollmentAssumption DEF files, app
<1>1. TypeOK /\ SoundMemories /\ EnvPersists
  BY DEF IInv
<1>2. /\ d[p] \in Memory /\ env \in 0..MaxEnrollments /\ envSecret \in BOOLEAN
      /\ issued \in 0..MaxEnrollments
      /\ orgless \in SUBSET (1..MaxEnrollments) /\ SoundMemory(d[p])
      /\ envSecret => env # 0
  BY <1>1 DEF TypeOK, SoundMemories, EnvPersists
<1>3. CASE RegisterFails(p)
  <2> DEFINE m == [d[p] EXCEPT !.tm = "acquire"]
  <2>1. m \in Memory /\ QuietRole(p, m)
    BY <1>2, <1>3
       DEF RegisterFails, Memory, QuietRole, InRole, SoundMemory, Registering
  <2>2. d' = [d EXCEPT ![p] = m]
    BY <1>3 DEF RegisterFails
  <2> HIDE DEF m
  <2> QED
    BY <1>2, <1>3, <2>1, <2>2, QuietStep DEF RegisterFails
<1>4. CASE RegisterRefused(p)
  <2> DEFINE m == [d[p] EXCEPT !.tm = "stopped"]
  <2>1. m \in Memory /\ QuietRole(p, m)
    BY <1>2, <1>4
       DEF RegisterRefused, Memory, QuietRole, InRole, SoundMemory, Registering
  <2>2. d' = [d EXCEPT ![p] = m]
    BY <1>4 DEF RegisterRefused
  <2> HIDE DEF m
  <2> QED
    BY <1>2, <1>4, <2>1, <2>2, QuietStep DEF RegisterRefused
<1>5. CASE WipeReads(p)
  <2>1. CASE envSecret
    <3> DEFINE m == [d[p] EXCEPT !.tm = "rename", !.saved = env]
    <3>1. m \in Memory /\ QuietRole(p, m)
      BY <1>2, <1>5, <2>1
         DEF WipeReads, Memory, QuietRole, InRole, SoundMemory, Registering
    <3>2. d' = [d EXCEPT ![p] = m]
      BY <1>5, <2>1 DEF WipeReads
    <3> HIDE DEF m
    <3> QED
      BY <1>2, <1>5, <3>1, <3>2, QuietStep DEF WipeReads
  <2>2. CASE ~envSecret
    <3> DEFINE m == [d[p] EXCEPT !.tm = "acquire"]
    <3>1. m \in Memory /\ QuietRole(p, m)
      BY <1>2, <1>5
         DEF WipeReads, Memory, QuietRole, InRole, SoundMemory, Registering
    <3>2. d' = [d EXCEPT ![p] = m]
      BY <1>5, <2>2 DEF WipeReads
    <3> HIDE DEF m
    <3> QED
      BY <1>2, <1>5, <3>1, <3>2, QuietStep DEF WipeReads
  <2> QED
    BY <2>1, <2>2
<1>6. CASE WipeFails(p)
  <2> DEFINE m == [d[p] EXCEPT !.tm = "acquire", !.saved = 0]
  <2>1. 0 \in 0..MaxEnrollments
    OBVIOUS
  <2>2. m \in Memory /\ QuietRole(p, m)
    BY <1>2, <1>6, <2>1
       DEF WipeFails, Memory, QuietRole, InRole, SoundMemory, Registering
  <2>3. d' = [d EXCEPT ![p] = m]
    BY <1>6 DEF WipeFails
  <2> HIDE DEF m
  <2> QED
    BY <1>2, <1>6, <2>2, <2>3, QuietStep DEF WipeFails
<1>7. CASE Acquire(p)
  <2> DEFINE m == [d[p] EXCEPT !.token = "valid"]
  <2>1. m \in Memory /\ QuietRole(p, m)
    BY <1>2, <1>7
       DEF Acquire, Accepted, Memory, QuietRole, InRole, SoundMemory, Registering
  <2>2. d' = [d EXCEPT ![p] = m]
    BY <1>7 DEF Acquire
  <2> HIDE DEF m
  <2> QED
    BY <1>2, <1>7, <2>1, <2>2, QuietStep DEF Acquire
<1>8. CASE AcquireRefused(p)
  <2> DEFINE m == [d[p] EXCEPT !.tm = "stopped"]
  <2>1. m \in Memory /\ QuietRole(p, m)
    BY <1>2, <1>8
       DEF AcquireRefused, Memory, QuietRole, InRole, SoundMemory, Registering
  <2>2. d' = [d EXCEPT ![p] = m]
    BY <1>8 DEF AcquireRefused
  <2> HIDE DEF m
  <2> QED
    BY <1>2, <1>8, <2>1, <2>2, QuietStep DEF AcquireRefused
<1>9. CASE RegisterKey(p)
  BY <1>9, RegisterKeyIInv
<1>10. CASE WipeRenames(p)
  BY <1>10, WipeRenamesIInv
<1> QED
  BY <1>3, <1>4, <1>5, <1>6, <1>7, <1>8, <1>9, <1>10 DEF Manage

\* The reconnect loop.
LEMMA ConnectionIInv ==
    ASSUME IInv, NEW p \in Daemons, Connection(p)
    PROVE  IInv'
<1> USE EnrollmentAssumption DEF files, app
<1>1. TypeOK /\ SoundMemories /\ EnvPersists
  BY DEF IInv
<1>2. /\ d[p] \in Memory /\ env \in 0..MaxEnrollments /\ envSecret \in BOOLEAN
      /\ issued \in 0..MaxEnrollments
      /\ orgless \in SUBSET (1..MaxEnrollments) /\ SoundMemory(d[p])
      /\ envSecret => env # 0
  BY <1>1 DEF TypeOK, SoundMemories, EnvPersists
<1>3. CASE TokenExpires(p)
  <2> DEFINE m == [d[p] EXCEPT !.token = "expired"]
  <2>1. m \in Memory /\ QuietRole(p, m)
    BY <1>2, <1>3
       DEF TokenExpires, Memory, QuietRole, InRole, SoundMemory, Registering
  <2>2. d' = [d EXCEPT ![p] = m]
    BY <1>3 DEF TokenExpires
  <2> HIDE DEF m
  <2> QED
    BY <1>2, <1>3, <2>1, <2>2, QuietStep DEF TokenExpires
<1>4. CASE FirstToken(p) \/ Disconnect(p)
  <2> DEFINE m == [d[p] EXCEPT !.conn = "dial"]
  <2>1. m \in Memory /\ QuietRole(p, m)
    BY <1>2, <1>4
       DEF FirstToken, Disconnect, Memory, QuietRole, InRole, SoundMemory, Registering
  <2>2. d' = [d EXCEPT ![p] = m]
    BY <1>4 DEF FirstToken, Disconnect
  <2> HIDE DEF m
  <2> QED
    BY <1>2, <1>4, <2>1, <2>2, QuietStep DEF FirstToken, Disconnect
<1>5. CASE Connect(p)
  <2> DEFINE m == [d[p] EXCEPT !.conn = "up"]
  <2>1. m \in Memory /\ QuietRole(p, m)
    BY <1>2, <1>5
       DEF Connect, Memory, QuietRole, InRole, SoundMemory, Registering
  <2>2. d' = [d EXCEPT ![p] = m]
    BY <1>5 DEF Connect
  <2> HIDE DEF m
  <2> QED
    BY <1>2, <1>5, <2>1, <2>2, QuietStep DEF Connect
<1> QED
  BY <1>3, <1>4, <1>5 DEF Connection

-----------------------------------------------------------------------------
(* Crashes and the ticket command *)

\* A crash may leave a key file without a key, and is remembered.
LEMMA CrashIInv ==
    ASSUME IInv, NEW p \in Daemons, Crash(p)
    PROVE  IInv'
<1> USE EnrollmentAssumption
<1>1. TypeOK /\ OneCreator /\ CreationIsPrivate /\ SoundMemories /\ KeyInSync
      /\ EnvPersists /\ EnrolledMeansPersisted
  BY DEF IInv
<1>2. /\ d' = [d EXCEPT ![p] = Blank] /\ crashes < MaxCrashes
      /\ crashes' = crashes + 1 /\ UNCHANGED <<files, app, made, ticket>>
  BY DEF Crash, Dead
<1>3. Blank \in Memory /\ Blank.pc = "down" /\ Blank.tm = "off" /\ Blank.token = "none"
  BY DEF Blank, Memory
<1>4. /\ d' \in [Daemons -> Memory] /\ d'[p] = Blank
      /\ \A q \in Daemons : q # p => d'[q] = d[q]
  BY <1>1, <1>2, <1>3, OwnStep
<1>5. crashes' \in 0..MaxCrashes /\ crashes' > 0
  BY <1>1, <1>2 DEF TypeOK
<1>6. TypeOK'
  BY <1>1, <1>2, <1>4, <1>5 DEF TypeOK, app, files
<1>7. OneCreator'
  BY <1>1, <1>2, <1>3, <1>4 DEF OneCreator, Creating, files
<1>8. CreationIsPrivate'
  BY <1>1, <1>2, <1>3, <1>4
     DEF CreationIsPrivate, NothingRegistered, Creating, Registering, app
<1>9. SoundMemories'
  BY <1>1, <1>2, <1>3, <1>4 DEF SoundMemories, SoundMemory, app
<1>10. OnlyCrashTearsKey'
  BY <1>5 DEF OnlyCrashTearsKey
<1>11. KeyInSync'
  BY <1>1, <1>2, <1>3, <1>4 DEF KeyInSync, app, files
<1>12. EnvPersists' /\ EnrolledMeansPersisted'
  BY <1>1, <1>2, <1>3, <1>4 DEF EnvPersists, EnrolledMeansPersisted, files
<1> QED
  BY <1>6, <1>7, <1>8, <1>9, <1>10, <1>11, <1>12 DEF IInv

\* The command makes a key file only if there is none, and only while it is
\* about to fill it may the file be incomplete on its account.
LEMMA TicketIInv ==
    ASSUME IInv, Ticket
    PROVE  IInv'
<1> USE EnrollmentAssumption
<1>1. TypeOK /\ OneCreator /\ CreationIsPrivate /\ SoundMemories /\ KeyInSync
      /\ OnlyCrashTearsKey /\ EnvPersists /\ EnrolledMeansPersisted
  BY DEF IInv
<1>2. /\ UNCHANGED <<env, envSecret, status, issued, orgless, registered, revoked,
                     d, crashes>>
      /\ ticket \in TicketMemory
  BY <1>1 DEF Ticket, TicketStarts, TicketStats, TicketLoads, TicketCreatesKeyFile,
     TicketFillsKeyFile, TicketPosts, TicketMoves, app, TypeOK
<1>3. ASSUME UNCHANGED <<keyFile, made>>, ticket' \in TicketMemory,
             ticket.pc # "fill", ticket'.pc \notin Creating
      PROVE  IInv'
  <2>1. TypeOK'
    BY <1>1, <1>2, <1>3 DEF TypeOK
  <2>2. OneCreator' /\ CreationIsPrivate'
    BY <1>1, <1>2, <1>3 DEF OneCreator, CreationIsPrivate, NothingRegistered, Creating
  <2>3. KeyInSync' /\ SoundMemories'
    BY <1>1, <1>2, <1>3 DEF KeyInSync, SoundMemories, SoundMemory
  <2>4. OnlyCrashTearsKey'
    BY <1>1, <1>2, <1>3 DEF OnlyCrashTearsKey
  <2>5. EnvPersists' /\ EnrolledMeansPersisted'
    BY <1>1, <1>2 DEF EnvPersists, EnrolledMeansPersisted
  <2> QED
    BY <2>1, <2>2, <2>3, <2>4, <2>5 DEF IInv
<1>4. NoTicket \in TicketMemory /\ NoTicket.pc \notin Creating
  BY DEF NoTicket, TicketMemory, Creating
<1>5. CASE TicketStarts
  <2> DEFINE t == [ticket EXCEPT !.pc = "stat"]
  <2>1. t \in TicketMemory /\ t.pc \notin Creating
    BY <1>2 DEF TicketMemory, Creating
  <2>2. ticket' = t /\ ticket.pc = "idle" /\ UNCHANGED <<keyFile, made>>
    BY <1>5 DEF TicketStarts, TicketMoves
  <2> HIDE DEF t
  <2> QED
    BY <1>3, <2>1, <2>2
<1>6. CASE TicketStats
  <2> DEFINE t == [ticket EXCEPT !.pc = "load"]
  <2>1. t \in TicketMemory /\ t.pc \notin Creating
    BY <1>2 DEF TicketMemory, Creating
  <2>2. ticket' \in {t, NoTicket} /\ ticket.pc = "stat" /\ UNCHANGED <<keyFile, made>>
    BY <1>6 DEF TicketStats, TicketMoves
  <2> HIDE DEF t
  <2> QED
    BY <1>3, <1>4, <2>1, <2>2
<1>7. CASE TicketLoads
  <2> DEFINE t == [ticket EXCEPT !.pc = "open"]
             u == [ticket EXCEPT !.pc = "post", !.key = keyFile]
  <2>1. t \in TicketMemory /\ t.pc \notin Creating
    BY <1>2 DEF TicketMemory, Creating
  <2>2. keyFile \in Keys => u \in TicketMemory /\ u.pc \notin Creating
    BY <1>2 DEF TicketMemory, Creating
  <2>3. \/ ticket' = t \/ ticket' = NoTicket
        \/ keyFile \in Keys /\ ticket' = u
    BY <1>1, <1>7 DEF TicketLoads, TicketMoves, TypeOK
  <2>4. ticket.pc = "load" /\ UNCHANGED <<keyFile, made>>
    BY <1>7 DEF TicketLoads
  <2> HIDE DEF t, u
  <2> QED
    BY <1>3, <1>4, <2>1, <2>2, <2>3, <2>4
<1>8. CASE TicketPosts
  BY <1>3, <1>4, <1>8 DEF TicketPosts, TicketMoves
<1>9. CASE TicketCreatesKeyFile
  <2>1. CASE keyFile # NoKey
    BY <1>3, <1>4, <1>9, <2>1 DEF TicketCreatesKeyFile, TicketMoves
  <2>2. CASE keyFile = NoKey
    <3> DEFINE t == [ticket EXCEPT !.pc = "fill"]
    <3>1. t \in TicketMemory /\ t.pc = "fill"
      BY <1>2 DEF TicketMemory
    <3>2. ticket' = t /\ keyFile' = Torn /\ made' = made
      BY <1>9, <2>2 DEF TicketCreatesKeyFile, TicketMoves
    <3> HIDE DEF t
    <3>3. TypeOK'
      BY <1>1, <1>2, <3>1, <3>2 DEF TypeOK
    <3>4. OneCreator'
      BY <1>1, <1>2, <2>2, <3>1, <3>2 DEF OneCreator, Creating
    <3>5. OnlyCrashTearsKey'
      BY <3>1, <3>2 DEF OnlyCrashTearsKey
    <3>6. NothingRegistered
      BY <2>2, NoKeyNobody
    <3> QED
      BY <1>2, <3>3, <3>4, <3>5, <3>6, KeyFileStep
  <2> QED
    BY <2>1, <2>2
<1>10. CASE TicketFillsKeyFile
  <2>1. ticket.pc \in Creating
    BY <1>10 DEF TicketFillsKeyFile, Creating
  <2>2. NothingRegistered /\ \A p \in Daemons : d[p].pc \notin Creating
    BY <1>1, <2>1 DEF OneCreator, CreationIsPrivate
  <2> DEFINE t == [ticket EXCEPT !.pc = "sync"]
  <2>3. t \in TicketMemory /\ t.pc = "sync"
    BY <1>2 DEF TicketMemory
  <2>4. \/ ticket' = t /\ keyFile' \in Keys
        \/ ticket' = NoTicket /\ keyFile' \in Keys \cup {NoKey}
    BY <1>1, <1>10 DEF TicketFillsKeyFile, TicketMoves, OneCreator
  <2>5. made' \in SUBSET Keys
    BY <1>1, <1>10 DEF TicketFillsKeyFile, TypeOK
  <2> HIDE DEF t
  <2>6. TypeOK'
    BY <1>1, <1>2, <1>4, <2>3, <2>4, <2>5 DEF TypeOK
  <2>7. OneCreator' /\ OnlyCrashTearsKey'
    BY <1>2, <1>4, <2>2, <2>3, <2>4 DEF OneCreator, OnlyCrashTearsKey, Creating
  <2> QED
    BY <1>2, <2>2, <2>6, <2>7, KeyFileStep
<1> QED
  BY <1>5, <1>6, <1>7, <1>8, <1>9, <1>10 DEF Ticket

\* Every step preserves the invariant.
LEMMA NextIInv == IInv /\ [Next]_vars => IInv'
<1> SUFFICES ASSUME IInv, [Next]_vars PROVE IInv'
  OBVIOUS
<1>1. CASE \E p \in Daemons : Enrol(p) \/ Identify(p) \/ Manage(p) \/ Connection(p)
                              \/ Crash(p)
  BY <1>1, EnrolIInv, IdentifyIInv, ManageIInv, ConnectionIInv, CrashIInv
<1>2. CASE Ticket
  BY <1>2, TicketIInv
<1>3. ASSUME UNCHANGED <<env, envSecret, keyFile, status, issued, orgless,
                         registered, d, made, crashes, ticket>>, revoked' \in BOOLEAN
      PROVE  IInv'
  BY <1>3 DEF IInv, TypeOK, OneCreator, CreationIsPrivate, NothingRegistered,
     SoundMemories, SoundMemory, KeyInSync, OnlyCrashTearsKey, EnvPersists,
     EnrolledMeansPersisted
<1>4. CASE Revoke
  BY <1>3, <1>4 DEF Revoke, files
<1>5. CASE UNCHANGED vars
  BY <1>3, <1>5 DEF vars, IInv, TypeOK
<1> QED
  BY <1>1, <1>2, <1>4, <1>5 DEF Next

\* The invariant holds throughout.
LEMMA Invariance == Spec => []IInv
BY InitIInv, NextIInv, PTL DEF Spec

-----------------------------------------------------------------------------

\* Type correctness: no daemon and no ticket ever works with a malformed key.
THEOREM TypeCorrect == Spec => []TypeOK
<1>1. IInv => TypeOK
  BY DEF IInv
<1> QED
  BY <1>1, Invariance, PTL

\* However many daemons race at first boot, restart and crash, and whenever the
\* ticket command runs, the key registered is the key of the file, and so is the
\* key of a daemon that registers or has got a token; a key that others read
\* before its creator failed to sync or close the file, and removed it, is never
\* registered (deviceid.go, loadOrCreateIdentity).
THEOREM KeyInSyncHolds == Spec => []KeyInSync
<1>1. IInv => KeyInSync
  BY DEF IInv
<1> QED
  BY <1>1, Invariance, PTL

\* A key file without a key is the work of a crash, or still being written.
THEOREM OnlyCrashTearsKeyHolds == Spec => []OnlyCrashTearsKey
<1>1. IInv => OnlyCrashTearsKey
  BY DEF IInv
<1> QED
  BY <1>1, Invariance, PTL

\* The user is told of an enrollment only when agent.env describes it, also
\* while another daemon wipes its secret (enroll.go, token.go removeEnvKey).
THEOREM EnrolledMeansPersistedHolds == Spec => []EnrolledMeansPersisted
<1>1. IInv => EnrolledMeansPersisted
  BY DEF IInv
<1> QED
  BY <1>1, Invariance, PTL
=============================================================================
