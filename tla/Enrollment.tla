----------------------------- MODULE Enrollment -----------------------------
(***************************************************************************)
(* How a device gets on the relay and stays there (cmd/agent/main.go,      *)
(* enroll.go, deviceid.go, token.go): self-enrollment, the device key, its *)
(* registration with a single-use secret, the token manager and the        *)
(* reconnect loop, across crashes and restarts of the daemon; and the      *)
(* ticket command (ticket.go), another process that opens the device key.  *)
(*                                                                         *)
(* Files survive a crash; everything in d[p] is lost with the process p.   *)
(* (The machine does not lose power: what is written stays written.)       *)
(* Hasfy-App is external: each approved enrollment has a number, names a   *)
(* device and comes with one secret that registers one public key.         *)
(***************************************************************************)
EXTENDS Naturals

CONSTANTS
    Daemons,        \* processes that run the daemon on this machine
    MaxEnrollments, \* enrollments users approve
    Keys,           \* keys that can be generated
    NoKey,          \* no key, or no key file
    Torn,           \* a key file that was created and not yet written
    MaxCrashes      \* bound on crashes

ASSUME EnrollmentAssumption ==
    /\ MaxEnrollments \in Nat /\ MaxCrashes \in Nat
    /\ NoKey \notin Keys /\ Torn \notin Keys /\ NoKey # Torn

VARIABLES
    env,        \* agent.env: the enrollment it describes, 0 if none
    envSecret,  \* agent.env holds the enrollment's secret
    keyFile,    \* device.key
    status,     \* the state in the enrollment status file
    issued,     \* enrollments Hasfy-App has issued
    orgless,    \* those whose answer named no organisation
    registered, \* registered[n]: the public key registered for enrollment n
    revoked,    \* Hasfy-App no longer accepts the device
    d,          \* d[p]: the memory of process p
    made,       \* keys generated so far
    crashes,    \* crashes so far
    ticket      \* the memory of `hasfy-agent ticket', run by the user

files == <<env, envSecret, keyFile, status>>
app == <<issued, orgless, registered, revoked>>
vars == <<env, envSecret, keyFile, status, issued, orgless, registered, revoked, d,
          made, crashes, ticket>>

Memory ==
    [pc : {"down", "code", "poll", "fetch", "write", "publish", "key", "open",
           "fill", "sync", "run"},
     env : 0..MaxEnrollments,       \* the enrollment it works with
     secret : BOOLEAN,              \* it holds the enrollment's secret
     key : Keys \cup {NoKey},
     tm : {"off", "register", "wipe", "rename", "acquire", "stopped"},
     saved : 0..MaxEnrollments,     \* agent.env as removeEnvKey read it
     token : {"none", "valid", "expired"},      \* tokenStore
     conn : {"off", "wait", "dial", "up"}]      \* the reconnect loop

Blank == [pc |-> "down", env |-> 0, secret |-> FALSE, key |-> NoKey,
          tm |-> "off", saved |-> 0, token |-> "none", conn |-> "off"]

TicketMemory ==
    [pc : {"idle", "stat", "load", "open", "fill", "sync", "post"},
     key : Keys \cup {NoKey}]

NoTicket == [pc |-> "idle", key |-> NoKey]

Init ==
    /\ env = 0 /\ envSecret = FALSE /\ keyFile = NoKey /\ status = "none"
    /\ issued = 0 /\ orgless = {}
    /\ registered = [n \in 1..MaxEnrollments |-> NoKey]
    /\ revoked = FALSE
    /\ d = [p \in Daemons |-> Blank]
    /\ made = {} /\ crashes = 0
    /\ ticket = NoTicket

\* The process ends, and its memory with it.
Dead(p) == [d EXCEPT ![p] = Blank]

-----------------------------------------------------------------------------
(* runAgent: configuration and self-enrollment *)

\* agent.env describes a device of an organisation.
IsEnrolled == env # 0 /\ env \notin orgless

\* The service manager (re)starts the daemon, which reads agent.env.
Boot(p) ==
    /\ d[p].pc = "down"
    /\ d' = [d EXCEPT ![p].pc = IF IsEnrolled THEN "key" ELSE "code",
                      ![p].env = env, ![p].secret = envSecret]
    /\ UNCHANGED <<files, app, made, crashes, ticket>>

\* A device code is obtained and published for the user.  (Here as elsewhere a
\* failure to write the status file is ignored.)
RequestCode(p) ==
    /\ d[p].pc = "code"
    /\ d' = [d EXCEPT ![p].pc = "poll"]
    /\ status' \in {status, "awaiting"}
    /\ UNCHANGED <<env, envSecret, keyFile, app, made, crashes, ticket>>

\* Hasfy-App cannot be reached; the request is repeated a minute later.
RequestCodeFails(p) ==
    /\ d[p].pc = "code"
    /\ status' \in {status, "error"}
    /\ UNCHANGED <<env, envSecret, keyFile, app, d, made, crashes, ticket>>

\* The user denies the request, or the code lapses: a fresh code follows.
PollRefused(p) ==
    /\ d[p].pc = "poll"
    /\ d' = [d EXCEPT ![p].pc = "code"]
    /\ UNCHANGED <<files, app, made, crashes, ticket>>

\* The user approves.
PollApproved(p) ==
    /\ d[p].pc = "poll"
    /\ d' = [d EXCEPT ![p].pc = "fetch"]
    /\ UNCHANGED <<files, app, made, crashes, ticket>>

\* The install token is exchanged for an enrollment, normally with a secret and
\* an organisation: neither is checked.
FetchEnrollment(p) ==
    /\ d[p].pc = "fetch" /\ issued < MaxEnrollments
    /\ issued' = issued + 1
    /\ orgless' \in {orgless, orgless \cup {issued + 1}}
    /\ \E given \in BOOLEAN :
           d' = [d EXCEPT ![p].pc = "write", ![p].env = issued + 1,
                          ![p].secret = given]
    /\ UNCHANGED <<files, registered, revoked, made, crashes, ticket>>

\* An error of the poll or of the exchange ends the process.
EnrollmentFails(p) ==
    /\ d[p].pc \in {"poll", "fetch"}
    /\ d' = Dead(p)
    /\ UNCHANGED <<files, app, made, crashes, ticket>>

\* agent.env is replaced, atomically ...
WriteEnv(p) ==
    /\ d[p].pc = "write"
    /\ env' = d[p].env /\ envSecret' = d[p].secret
    /\ d' = [d EXCEPT ![p].pc = "publish"]
    /\ UNCHANGED <<keyFile, status, app, made, crashes, ticket>>

\* ... or cannot be, which ends the process ...
WriteEnvIgnoringErrors(p) ==
    /\ d[p].pc = "write"
    /\ d' = [d EXCEPT ![p].pc = "publish"]
    /\ UNCHANGED <<files, app, made, crashes, ticket>>

WriteEnvFails(p) ==
    /\ d[p].pc = "write"
    /\ d' = Dead(p)
    /\ UNCHANGED <<files, app, made, crashes, ticket>>

\* ... and then the user is told.
PublishEnrolled(p) ==
    /\ d[p].pc = "publish"
    /\ status' \in {status, "enrolled"}
    /\ d' = [d EXCEPT ![p].pc = "key"]
    /\ UNCHANGED <<env, envSecret, keyFile, app, made, crashes, ticket>>

-----------------------------------------------------------------------------
(* loadOrCreateIdentity *)

\* The daemon has its identity: the token manager and the reconnect loop start.
\* Registration is needed exactly when this process created the key.
Running(p, key, created) ==
    [d EXCEPT ![p].pc = "run", ![p].key = key, ![p].conn = "wait",
              ![p].tm = IF ~created THEN "acquire"
                        ELSE IF d[p].secret THEN "register" ELSE "stopped"]

\* There is a key file: it is used, or refused as malformed.
ReadKey(p) ==
    /\ d[p].pc = "key" /\ keyFile # NoKey
    /\ d' = IF keyFile = Torn THEN Dead(p) ELSE Running(p, keyFile, FALSE)
    /\ UNCHANGED <<files, app, made, crashes, ticket>>

NoKeyYet(p) ==
    /\ d[p].pc = "key" /\ keyFile = NoKey
    /\ d' = [d EXCEPT ![p].pc = "open"]
    /\ UNCHANGED <<files, app, made, crashes, ticket>>

\* O_CREATE|O_EXCL: the file is created, or was there already.
CreateKeyFileNotExclusive(p) ==
    /\ d[p].pc = "open"
    /\ keyFile' = Torn
    /\ d' = [d EXCEPT ![p].pc = "fill"]
    /\ UNCHANGED <<env, envSecret, status, app, made, crashes, ticket>>

CreateKeyFile(p) ==
    /\ d[p].pc = "open"
    /\ \/ /\ keyFile = NoKey /\ keyFile' = Torn
          /\ d' = [d EXCEPT ![p].pc = "fill"]
       \/ /\ keyFile # NoKey /\ d' = Dead(p)
          /\ UNCHANGED keyFile
    /\ UNCHANGED <<env, envSecret, status, app, made, crashes, ticket>>

\* The key is written, and can be read from here on ...
FillKeyFile(p) ==
    /\ d[p].pc = "fill"
    /\ \E k \in Keys \ made :
           /\ keyFile' = k /\ made' = made \cup {k}
           /\ d' = [d EXCEPT ![p].pc = "sync", ![p].key = k]
    /\ UNCHANGED <<env, envSecret, status, app, crashes, ticket>>

\* ... then the file is synced and closed.
SyncKeyFile(p) ==
    /\ d[p].pc = "sync"
    /\ d' = Running(p, d[p].key, TRUE)
    /\ UNCHANGED <<files, app, made, crashes, ticket>>

\* The write, the sync or the close fails: the file is removed again, with the
\* key it may hold, and the process ends.
FillKeyFileFailsKeepingIt(p) ==
    /\ d[p].pc \in {"fill", "sync"}
    /\ d' = Dead(p)
    /\ UNCHANGED <<files, app, made, crashes, ticket>>

FillKeyFileFails(p) ==
    /\ d[p].pc \in {"fill", "sync"}
    /\ keyFile' = NoKey
    /\ d' = Dead(p)
    /\ UNCHANGED <<env, envSecret, status, app, made, crashes, ticket>>

\* Any other error ends the process before there is a file.
IdentityFails(p) ==
    /\ d[p].pc \in {"key", "open"}
    /\ d' = Dead(p)
    /\ UNCHANGED <<files, app, made, crashes, ticket>>

-----------------------------------------------------------------------------
(* runTokenManager: registration of the key *)

\* The secret is accepted once: the key is registered.  If the answer is lost
\* the manager takes it for a transient failure and moves on.
RegisterKey(p) ==
    /\ d[p].tm = "register" /\ registered[d[p].env] = NoKey
    /\ registered' = [registered EXCEPT ![d[p].env] = d[p].key]
    /\ \E next \in {"wipe", "acquire"} : d' = [d EXCEPT ![p].tm = next]
    /\ UNCHANGED <<files, issued, orgless, revoked, made, crashes, ticket>>

\* The request fails: the manager goes on to ask for tokens.
RegisterFails(p) ==
    /\ d[p].tm = "register"
    /\ d' = [d EXCEPT ![p].tm = "acquire"]
    /\ UNCHANGED <<files, app, made, crashes, ticket>>

\* The secret is refused (it has expired): the manager stops.
RegisterRefused(p) ==
    /\ d[p].tm = "register"
    /\ d' = [d EXCEPT ![p].tm = "stopped"]
    /\ UNCHANGED <<files, app, made, crashes, ticket>>

\* removeEnvKey reads agent.env, where the secret may be gone already ...
WipeReads(p) ==
    /\ d[p].tm = "wipe"
    /\ d' = IF envSecret THEN [d EXCEPT ![p].tm = "rename", ![p].saved = env]
            ELSE [d EXCEPT ![p].tm = "acquire"]
    /\ UNCHANGED <<files, app, made, crashes, ticket>>

\* ... and renames a copy without the secret over it.
WipeRenames(p) ==
    /\ d[p].tm = "rename"
    /\ env' = d[p].saved /\ envSecret' = FALSE
    /\ d' = [d EXCEPT ![p].tm = "acquire", ![p].saved = 0]
    /\ UNCHANGED <<keyFile, status, app, made, crashes, ticket>>

\* Any error on the way is only logged.
WipeFails(p) ==
    /\ d[p].tm \in {"wipe", "rename"}
    /\ d' = [d EXCEPT ![p].tm = "acquire", ![p].saved = 0]
    /\ UNCHANGED <<files, app, made, crashes, ticket>>

-----------------------------------------------------------------------------
(* Tokens and the connection *)

\* The device of p is one Hasfy-App accepts assertions of.
Accepted(p) == ~revoked /\ registered[d[p].env] = d[p].key

\* The timer fires and a token is obtained; the timer is set again.  (After a
\* transient failure it is set again, too, and nothing else happens.)
AcquireOnce(p) ==
    /\ d[p].tm = "acquire" /\ Accepted(p) /\ d[p].token = "none"
    /\ d' = [d EXCEPT ![p].token = "valid"]
    /\ UNCHANGED <<files, app, made, crashes, ticket>>

Acquire(p) ==
    /\ d[p].tm = "acquire" /\ Accepted(p)
    /\ d' = [d EXCEPT ![p].token = "valid"]
    /\ UNCHANGED <<files, app, made, crashes, ticket>>

\* The device is refused: the manager stops for good.
AcquireRefused(p) ==
    /\ d[p].tm = "acquire" /\ ~Accepted(p)
    /\ d' = [d EXCEPT ![p].tm = "stopped"]
    /\ UNCHANGED <<files, app, made, crashes, ticket>>

TokenExpires(p) ==
    /\ d[p].token = "valid"
    /\ d' = [d EXCEPT ![p].token = "expired"]
    /\ UNCHANGED <<files, app, made, crashes, ticket>>

\* store.wait returns once there has been a token.
FirstToken(p) ==
    /\ d[p].conn = "wait" /\ d[p].token # "none"
    /\ d' = [d EXCEPT ![p].conn = "dial"]
    /\ UNCHANGED <<files, app, made, crashes, ticket>>

\* The relay accepts the token of the moment and runOnce goes on.  (A failed
\* attempt is followed by another, after the backoff.)  It refuses a register
\* frame that names another organisation than the token, or none.
Connect(p) ==
    /\ d[p].conn = "dial" /\ d[p].token = "valid" /\ d[p].env \notin orgless
    /\ d' = [d EXCEPT ![p].conn = "up"]
    /\ UNCHANGED <<files, app, made, crashes, ticket>>

\* runOnce returns: the connection dropped.
Disconnect(p) ==
    /\ d[p].conn = "up"
    /\ d' = [d EXCEPT ![p].conn = "dial"]
    /\ UNCHANGED <<files, app, made, crashes, ticket>>

-----------------------------------------------------------------------------
(* cmdTicket, in a process of its own beside the daemon's *)

TicketMoves(next) ==
    /\ ticket' = next
    /\ UNCHANGED <<env, envSecret, status, app, d, crashes>>

\* loadDeviceContext: agent.env is read (an unenrolled device is told so) ...
TicketStarts ==
    /\ ticket.pc = "idle" /\ IsEnrolled
    /\ TicketMoves([ticket EXCEPT !.pc = "stat"])
    /\ UNCHANGED <<keyFile, made>>

\* ... the key file has to be there ...
TicketStats ==
    /\ ticket.pc = "stat"
    /\ TicketMoves(IF keyFile = NoKey THEN NoTicket ELSE [ticket EXCEPT !.pc = "load"])
    /\ UNCHANGED <<keyFile, made>>

\* ... and loadOrCreateIdentity reads it, if it is still there.
TicketLoads ==
    /\ ticket.pc = "load"
    /\ TicketMoves(CASE keyFile = NoKey -> [ticket EXCEPT !.pc = "open"]
                     [] keyFile = Torn  -> NoTicket
                     [] keyFile \in Keys -> [ticket EXCEPT !.pc = "post", !.key = keyFile])
    /\ UNCHANGED <<keyFile, made>>

\* If it is not, a key is made, or fails to be and is removed again; either way
\* the command gives up.
TicketCreatesKeyFile ==
    /\ ticket.pc = "open"
    /\ \/ /\ keyFile = NoKey /\ keyFile' = Torn
          /\ TicketMoves([ticket EXCEPT !.pc = "fill"])
       \/ /\ keyFile # NoKey /\ TicketMoves(NoTicket)
          /\ UNCHANGED keyFile
    /\ UNCHANGED made

TicketFillsKeyFile ==
    \/ /\ ticket.pc = "fill"
       /\ \E k \in Keys \ made : keyFile' = k /\ made' = made \cup {k}
       /\ TicketMoves([ticket EXCEPT !.pc = "sync"])
    \/ /\ ticket.pc = "sync"
       /\ TicketMoves(NoTicket) /\ UNCHANGED <<keyFile, made>>
    \/ /\ ticket.pc \in {"fill", "sync"}
       /\ keyFile' = NoKey
       /\ TicketMoves(NoTicket) /\ UNCHANGED made

\* The report is signed and posted, and the answer shown.
TicketPosts ==
    /\ ticket.pc = "post"
    /\ TicketMoves(NoTicket)
    /\ UNCHANGED <<keyFile, made>>

Ticket ==
    \/ TicketStarts \/ TicketStats \/ TicketLoads \/ TicketCreatesKeyFile
    \/ TicketFillsKeyFile \/ TicketPosts

-----------------------------------------------------------------------------
(* The environment *)

\* An administrator revokes the device.
Revoke ==
    /\ ~revoked /\ revoked' = TRUE
    /\ UNCHANGED <<files, issued, orgless, registered, d, made, crashes, ticket>>

\* The process is killed.
Crash(p) ==
    /\ d[p].pc # "down" /\ crashes < MaxCrashes
    /\ d' = Dead(p) /\ crashes' = crashes + 1
    /\ UNCHANGED <<files, app, made, ticket>>

Enrol(p) ==
    \/ Boot(p) \/ RequestCode(p) \/ RequestCodeFails(p)
    \/ PollRefused(p) \/ PollApproved(p) \/ FetchEnrollment(p)
    \/ EnrollmentFails(p) \/ WriteEnv(p) \/ WriteEnvFails(p) \/ PublishEnrolled(p)

Identify(p) ==
    \/ ReadKey(p) \/ NoKeyYet(p) \/ CreateKeyFile(p)
    \/ FillKeyFile(p) \/ SyncKeyFile(p) \/ FillKeyFileFails(p) \/ IdentityFails(p)

Manage(p) ==
    \/ RegisterKey(p) \/ RegisterFails(p) \/ RegisterRefused(p)
    \/ WipeReads(p) \/ WipeRenames(p) \/ WipeFails(p)
    \/ Acquire(p) \/ AcquireRefused(p)

Connection(p) ==
    TokenExpires(p) \/ FirstToken(p) \/ Connect(p) \/ Disconnect(p)

Next ==
    \/ \E p \in Daemons : Enrol(p) \/ Identify(p) \/ Manage(p) \/ Connection(p)
                          \/ Crash(p)
    \/ Revoke
    \/ Ticket

\* The goroutines of a daemon run and tokens expire.  Hasfy-App and the relay
\* answer now and then, and a token outlives the backoff often enough for a
\* connection to be made: hence strong fairness for Connect.
ProcessFairness(p) ==
    /\ WF_vars(Identify(p))
    /\ WF_vars(RegisterKey(p) \/ RegisterFails(p) \/ RegisterRefused(p))
    /\ WF_vars(WipeReads(p) \/ WipeRenames(p))
    /\ WF_vars(Acquire(p)) /\ WF_vars(AcquireRefused(p))
    /\ WF_vars(TokenExpires(p))
    /\ WF_vars(FirstToken(p))
    /\ SF_vars(Connect(p))

\* The service manager restarts the daemon (Restart=always).
Fairness == \A p \in Daemons : WF_vars(Boot(p)) /\ ProcessFairness(p)

Spec == Init /\ [][Next]_vars
FairSpec == Spec /\ Fairness

-----------------------------------------------------------------------------
(* Properties *)

\* Type correctness; no daemon ever works with a malformed key.
TypeOK ==
    /\ env \in 0..MaxEnrollments /\ envSecret \in BOOLEAN
    /\ keyFile \in Keys \cup {NoKey, Torn}
    /\ status \in {"none", "awaiting", "error", "enrolled"}
    /\ issued \in 0..MaxEnrollments /\ orgless \in SUBSET (1..MaxEnrollments)
    /\ registered \in [1..MaxEnrollments -> Keys \cup {NoKey}]
    /\ revoked \in BOOLEAN
    /\ d \in [Daemons -> Memory]
    /\ made \in SUBSET Keys
    /\ crashes \in 0..MaxCrashes
    /\ ticket \in TicketMemory

\* deviceid.go, on O_EXCL: "two daemons racing at first boot cannot both
\* generate a key and clobber each other, which would leave the registered
\* public key out of sync with the private key actually in use".  Whatever is
\* registered is the key of the file, and so is the key of every daemon that
\* registers it or has got a token with it: neither two daemons, nor restarts,
\* nor crashes at any point, nor a ticket in between, nor a key file removed
\* after others have read it bring these out of sync.
KeyInSync ==
    /\ \A n \in 1..MaxEnrollments : registered[n] \in {NoKey, keyFile}
    /\ \A p \in Daemons :
           d[p].tm \in {"register", "wipe", "rename"} \/ d[p].token # "none" =>
               d[p].key = keyFile

\* A key file without a key, which every later start refuses, is left behind by
\* a crash only: the error paths of loadOrCreateIdentity remove it (if that
\* removal, which is "au mieux", does not fail as well).
OnlyCrashTearsKey ==
    keyFile = Torn => \/ crashes > 0 \/ ticket.pc = "fill"
                      \/ \E p \in Daemons : d[p].pc = "fill"

\* The status file says "enrolled" only when agent.env holds an enrollment (if
\* not a complete one: an organisation may be missing), so that after a crash at
\* any point the user is not told so in vain.
EnrolledMeansPersisted == status = "enrolled" => env # 0

\* main.go, "Read the token per attempt": a daemon whose key is registered gets
\* its connection (back), however often the relay drops it and however many
\* tokens expire, as long as it is neither stopped nor revoked, provided that
\* its enrollment named its organisation.
StaysReachable ==
    \A p \in Daemons :
        (d[p].tm = "acquire" /\ Accepted(p) /\ d[p].env \notin orgless) ~>
        (d[p].conn = "up" \/ revoked \/ d[p].pc = "down")

-----------------------------------------------------------------------------
(* Statements of the repository that the code does not meet *)

\* deviceid.go, on O_EXCL, read of every process: a daemon or a ticket may read
\* the key between the creator's write and its failing sync or close, and then
\* works with a key that is in no file, is never registered and gets no token.
KeyInUseIsOnDisk ==
    /\ \A p \in Daemons : d[p].key \in {NoKey, keyFile}
    /\ ticket.key \in {NoKey, keyFile}

\* enroll.go, isEnrolled "reports whether agent.env already describes a device":
\* an answer without an organisation is taken for an enrollment, and the next
\* start enrols again.
EnrolledOnce == status = "enrolled" => IsEnrolled

\* token.go, after a transient failure: "Registration is attempted again on the
\* next daemon start".
RegistrationRetried ==
    [][\A p \in Daemons :
          (d[p].tm = "off" /\ d'[p].tm # "off" /\ d[p].secret
               /\ registered[d[p].env] = NoKey)
          => d'[p].tm = "register"]_vars

\* token.go, "Spend-once: the secret must not survive on disk", and main.go,
\* "one-shot, wiped once the key is registered".
SpentSecretWiped ==
    (env # 0 /\ envSecret /\ registered[env] # NoKey) ~> ~envSecret

\* token.go, on a device refused by Hasfy-App: "The current connection is left
\* alone - it dies when its token expires, which is the revocation taking
\* effect".
RevocationTakesEffect ==
    \A p \in Daemons :
        (revoked /\ d[p].tm = "stopped" /\ d[p].token = "expired") ~>
        (d[p].conn # "up")

\* ticket.go, loadDeviceContext: "Read-only, and never creates a keypair".  A
\* daemon that removes its half-made key file between the command's stat and
\* its read makes it do so, and the daemon's next start then finds a key it
\* takes for registered.
TicketCreatesNoKey == [][ticket' # ticket => keyFile' = keyFile]_vars
=============================================================================
