---------------------------- MODULE Provisioning ----------------------------
(***************************************************************************)
(* How a device comes to belong to an account.  A new device links itself: *)
(* link_device and its ProvisioningPipe (src/src/provisioning/) show a URL *)
(* and wait for the message the primary device encrypts to it              *)
(* (AccountManager::link_device), make keys for both identities and ask    *)
(* the server for a device.  Or it registers the account itself            *)
(* (websocket/registration.rs): a verification session, a code, and        *)
(* register_account.                                                       *)
(***************************************************************************)
EXTENDS PreKeys

CONSTANTS Defects,    \* what may be wrong with a provisioning message
          MaxScans    \* bound on the URLs the primary scans

VARIABLES pipe,       \* the provisioning websocket: [open, of, inbox]
          primary,    \* the primary's AccountManager::link_device
          codes,      \* external: provisioning codes the server will take
          told,       \* what link_device sent to the application
          ended,      \* ended[a]: how attempt a ended
          session,    \* external: the verification session at the server
          view,       \* what the application was last told about it, if it registers
          fresh,      \* the last call about the session was answered with it
          scans

linkVars == <<pipe, primary, codes, told, ended, scans>>
sessionVars == <<session, view, fresh>>

Closed == [open |-> FALSE, of |-> 0, inbox |-> <<>>]
NoScan == [pc |-> "idle", url |-> 0, code |-> 0]

-----------------------------------------------------------------------------
(* The primary: AccountManager::link_device *)

Scan(a) ==
    /\ primary.pc = "idle" /\ scans < MaxScans
    /\ <<"Url", a>> \in Range(told)
    /\ scans' = scans + 1
    /\ primary' = [pc |-> "code", url |-> a, code |-> 0]
    /\ UNCHANGED <<pipe, codes, told, ended>>

\* new_device_provisioning_code
GetCode ==
    /\ primary.pc = "code"
    /\ \/ /\ primary' = [primary EXCEPT !.pc = "send", !.code = scans]
          /\ codes' = codes \cup {scans}
          /\ UNCHANGED failures
       \/ /\ failures < MaxFailures /\ failures' = failures + 1
          /\ primary' = NoScan
          /\ UNCHANGED codes
    /\ UNCHANGED <<pipe, told, ended, scans>>

\* ProvisioningCipher::encrypt: an ephemeral key, agreed with the key in the
\* URL, authenticates the body.
Encrypt(key, message) == [key |-> key, message |-> message]
\* ProvisioningCipher::decrypt: another key pair fails the MAC.
Decrypts(key, env) == env.key = key

\* send_provisioning_message: the server passes it to the websocket that was
\* given this address, if it is still open.
SendProvision ==
    /\ primary.pc = "send"
    /\ primary' = NoScan
    /\ \E defects \in SUBSET Defects :
         LET message == [code |-> primary.code, defects |-> defects]
             env == Encrypt(primary.url, message) IN
         IF pipe.open /\ pipe.of = primary.url
         THEN pipe' = [pipe EXCEPT !.inbox = Append(@, [path |-> "message", env |-> env])]
         ELSE defects = {} /\ UNCHANGED pipe
    /\ UNCHANGED <<codes, told, ended, scans>>

-----------------------------------------------------------------------------
(* The new device: link_device *)

StartLink(a) ==
    /\ job.pc = "idle" /\ me = None /\ ended[a] = "no"
    /\ \A b \in Links : b < a => ended[b] # "no"
    /\ round' = round + 1
    /\ job' = [pc |-> "url", kind |-> "link", dev |-> a, left |-> <<"aci", "pni">>,
               use |-> TRUE, count |-> 0, round |-> round + 1,
               message |-> None, keys |-> [x \in {} |-> None]]
    /\ pipe' = [open |-> TRUE, of |-> a, inbox |-> << [path |-> "address"] >>]
    /\ UNCHANGED <<store, bundle, wire, handed, me, refreshed, failures, fetches>>
    /\ UNCHANGED <<primary, codes, told, ended, scans>>

EndLink(how) == /\ job' = Idle
                /\ ended' = [ended EXCEPT ![job.dev] = how]
                /\ pipe' = Closed

\* The order in which link_device looks at a message, and the error each
\* field it misses or cannot read is reported with.  A malformed ephemeral
\* backup key is dropped and no error.
Looks == << "publicKey", "privateKey", "profileKey", "entropyPool", "number", "code" >>
Objections(message) == SelectSeq(Looks, LAMBDA f : f \in message.defects)

\* ProvisioningPipe::process_request and the step link_device takes with it.
ProvisionStep ==
    /\ job.pc \in {"url", "message"}
    /\ pipe.inbox # <<>>
    /\ LET request == Head(pipe.inbox)
           rest == [pipe EXCEPT !.inbox = Tail(@)] IN
       \/ /\ request.path = "address" /\ job.pc = "url"
          /\ told' = Append(told, <<"Url", job.dev>>)
          /\ job' = [job EXCEPT !.pc = "message"]
          /\ pipe' = rest
          /\ UNCHANGED ended
       \/ /\ request.path = "message" /\ job.pc = "message"
          /\ Decrypts(pipe.of, request.env)
          /\ Objections(request.env.message) = <<>>
          /\ job' = [job EXCEPT !.pc = "replenish", !.message = request.env.message]
          /\ pipe' = rest
          /\ UNCHANGED <<told, ended>>
       \/ /\ request.path = "message" /\ job.pc = "message"
          /\ Decrypts(pipe.of, request.env)
          /\ Objections(request.env.message) # <<>>
          /\ EndLink(Head(Objections(request.env.message)))
          /\ UNCHANGED told
    /\ UNCHANGED <<store, bundle, wire, handed, me, refreshed, round, failures, fetches>>
    /\ UNCHANGED <<primary, codes, scans>>

\* The websocket ends, or what came over it was no provisioning request or
\* could not be read, decrypted or acknowledged: MissingUrl, MissingMessage,
\* InvalidStep, MismatchedMac, WsError, WsClosing; or nobody takes the URL and
\* the send of it panics.
ProvisionFails ==
    /\ job.pc \in {"url", "message"}
    /\ failures < MaxFailures /\ failures' = failures + 1
    /\ EndLink("pipe")
    /\ UNCHANGED <<store, bundle, wire, handed, me, refreshed, round, fetches>>
    /\ UNCHANGED <<primary, codes, told, scans>>

\* replenish_pre_keys, for a link or a registration once for each store.
ReplenishKeys ==
    /\ Replenish
    /\ IF job.kind = "link" /\ job'.pc = "idle"
       THEN ended' = [ended EXCEPT ![job.dev] = "store"] /\ pipe' = Closed
       ELSE UNCHANGED <<ended, pipe>>
    /\ UNCHANGED <<primary, codes, told, scans>>

\* Mutant: the length of the profile key is looked at when the device exists.
UploadLinkFirst ==
    /\ job.pc = "upload" /\ job.kind = "link"
    /\ IF "profileKeyLength" \in job.message.defects
       THEN EndLink("profileKeyLength") /\ wire' = wire \cup {Request(job.message.code)}
       ELSE Send(Request(job.message.code)) /\ UNCHANGED <<ended, pipe>>
    /\ UNCHANGED <<store, bundle, handed, me, refreshed, round, failures, fetches>>
    /\ UNCHANGED <<primary, codes, told, scans>>

\* Mutant: the application is told when the request goes out.
UploadLinkTold ==
    /\ job.pc = "upload" /\ job.kind = "link"
    /\ IF "profileKeyLength" \in job.message.defects
       THEN EndLink("profileKeyLength") /\ UNCHANGED <<wire, told>>
       ELSE /\ Send(Request(job.message.code)) /\ UNCHANGED <<ended, pipe>>
            /\ told' = Append(told, <<"Registration", job.dev>>)
    /\ UNCHANGED <<store, bundle, handed, me, refreshed, round, failures, fetches>>
    /\ UNCHANGED <<primary, codes, scans>>

\* The device name, encrypted to the identity in the message, the profile key's
\* length, and PUT /v1/devices/link.
UploadLink ==
    /\ job.pc = "upload" /\ job.kind = "link"
    /\ \/ EndLink("deviceName") /\ UNCHANGED wire
       \/ IF "profileKeyLength" \in job.message.defects
          THEN EndLink("profileKeyLength") /\ UNCHANGED wire
          ELSE Send(Request(job.message.code)) /\ UNCHANGED <<ended, pipe>>
    /\ UNCHANGED <<store, bundle, handed, me, refreshed, round, failures, fetches>>
    /\ UNCHANGED <<primary, codes, told, scans>>

\* External: the server answers a link request: a device for a code it gave
\* out (once), or a refusal (403, 409, 411), of which a code that expired is
\* one reason.
\* link_device then tells the application, or its error.  A receiver the
\* application dropped makes that send panic: the device stays at the server
\* and nobody is told, as when the answer is lost and GiveUpLink ends the call.
ServeLink(request) ==
    LET awaited == Awaited(request) IN
    /\ request \in wire /\ request.kind = "link"
    /\ wire' = wire \ {request}
    /\ \/ /\ request.code \in codes
          /\ codes' = codes \ {request.code}
          /\ bundle' = [bundle EXCEPT ![request.dev] = request.keys]
          /\ \/ /\ awaited
                /\ EndLink("linked")
                /\ told' = Append(told, <<"Registration", request.dev>>)
                /\ me' = request.dev
                /\ UNCHANGED failures
             \/ /\ UNCHANGED <<job, ended, pipe, told, me>>
                /\ IF awaited THEN failures < MaxFailures /\ failures' = failures + 1
                              ELSE UNCHANGED failures
       \/ /\ IF awaited
             THEN /\ failures < MaxFailures /\ failures' = failures + 1
                  /\ EndLink("refused")
             ELSE UNCHANGED <<failures, job, ended, pipe>>
          /\ UNCHANGED <<codes, bundle, told, me>>
    /\ UNCHANGED <<store, handed, refreshed, round, fetches>>
    /\ UNCHANGED <<primary, scans>>

GiveUpLink ==
    /\ GiveUp /\ job.kind = "link"
    /\ ended' = [ended EXCEPT ![job.dev] = "unanswered"] /\ pipe' = Closed
    /\ UNCHANGED <<primary, codes, told, scans>>

-----------------------------------------------------------------------------
(* Registration: the verification session and register_account *)

\* External: the server's answer to a call about the session: a status and
\* the session after it.
Answers(op) ==
    IF op # "create" /\ session = "none" THEN {[status |-> 404, session |-> session]}
    ELSE {[status |-> s, session |-> session] : s \in IF op = "create" THEN {429} ELSE {422, 429}}
         \cup
         CASE op = "create" -> {[status |-> 200, session |-> s] : s \in {"challenged", "ready"}}
           [] op = "patch" ->
                {[status |-> 403, session |-> session],
                 [status |-> 200, session |-> IF session = "challenged" THEN "ready" ELSE session]}
           [] op = "request" ->
                IF session \in {"ready", "sent"}
                THEN {[status |-> 200, session |-> "sent"], [status |-> 418, session |-> session],
                      [status |-> 440, session |-> session]}
                ELSE {[status |-> 409, session |-> session]}
           [] op = "submit" ->
                IF session = "sent"
                THEN {[status |-> 200, session |-> s] : s \in {"sent", "verified"}}
                ELSE {[status |-> 409, session |-> session]}

\* What the application may try, from what it knows.
Sensible(op) == CASE op = "create" -> view = "none"
                  [] op = "patch" -> view = "challenged"
                  [] op = "request" -> view \in {"ready", "sent"}
                  [] op = "submit" -> view = "sent"

\* Mutant: a conflict is an error like any other and says nothing of the session.
LearnedNoConflict(answer) ==
    CASE answer.status = 404 -> "none"
      [] answer.status \in {409, 422, 440} -> view
      [] OTHER -> answer.session

\* create_verification_session, patch_verification_session, request_
\* verification_code and submit_verification_code with the errors they map:
\* 403, 409, 418 and 429 carry the session, 404 is NoSuchSession, a 422 objects
\* to the session id and a 440 says why the code was not delivered.
Learned(answer) ==
    CASE answer.status = 404 -> "none"
      [] answer.status \in {422, 440} -> view
      [] OTHER -> answer.session

SessionCall(op) ==
    /\ job.pc = "idle" /\ me = None /\ Sensible(op)
    /\ \E answer \in Answers(op) :
         /\ answer.status \in {403, 418, 422, 429, 440} => failures < MaxFailures
         /\ session' = answer.session
         /\ \/ /\ view' = Learned(answer)
               /\ fresh' = (answer.status \notin {422, 440})
               /\ failures' = IF answer.status \in {403, 418, 422, 429, 440}
                              THEN failures + 1 ELSE failures
            \/ /\ failures < MaxFailures /\ failures' = failures + 1
               /\ fresh' = FALSE
               /\ UNCHANGED view

\* External: the server drops a session.
SessionExpires ==
    /\ session # "none" /\ failures < MaxFailures
    /\ failures' = failures + 1
    /\ session' = "none" /\ fresh' = FALSE
    /\ UNCHANGED view

StartRegister ==
    /\ job.pc = "idle" /\ me = None /\ view = "verified"
    /\ round' = round + 1
    /\ job' = [pc |-> "replenish", kind |-> "register", dev |-> 0, left |-> <<"aci", "pni">>,
               use |-> TRUE, count |-> 0, round |-> round + 1,
               keys |-> [x \in {} |-> None]]
    /\ UNCHANGED <<store, bundle, wire, handed, me, refreshed, failures, fetches>>

\* submit_registration_request
UploadRegister ==
    /\ job.pc = "upload" /\ job.kind = "register"
    /\ Send(Request(None))
    /\ UNCHANGED <<store, bundle, handed, me, refreshed, round, failures, fetches>>

\* External: the account is registered (again) for a verified session; another
\* session, or a device that could be transferred (409), is refused, and the
\* application starts with a new session.
ServeRegister(request) ==
    LET awaited == Awaited(request) IN
    /\ request \in wire /\ request.kind = "register"
    /\ wire' = wire \ {request}
    /\ \/ /\ session = "verified"
          /\ bundle' = [bundle EXCEPT ![0] = request.keys]
          /\ refreshed' = IF me = 0 THEN [i \in Identities |-> "unknown"] ELSE refreshed
          /\ UNCHANGED <<view, fresh>>
          /\ \/ awaited /\ me' = 0 /\ job' = Idle /\ UNCHANGED failures
             \/ /\ UNCHANGED <<me, job>>
                /\ IF awaited THEN failures < MaxFailures /\ failures' = failures + 1
                              ELSE UNCHANGED failures
       \/ /\ IF awaited
             THEN /\ IF session # "verified" THEN UNCHANGED failures
                     ELSE failures < MaxFailures /\ failures' = failures + 1
                  /\ job' = Idle /\ view' = "none" /\ fresh' = FALSE
             ELSE UNCHANGED <<failures, job, view, fresh>>
          /\ UNCHANGED <<bundle, refreshed, me>>
    /\ UNCHANGED <<store, handed, round, fetches>>

=============================================================================
