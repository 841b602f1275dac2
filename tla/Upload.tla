------------------------------- MODULE Upload -------------------------------
(***************************************************************************)
(* The firmware upload (handleFileUploadData, handleFileUploadResponse and *)
(* failOta in hal/WebServer): a request's body arrives in chunks, between  *)
(* which the server may be handed a chunk of another request.  One status, *)
(* one flag and one Update object serve them all, and while the flag is    *)
(* set the main loop does nothing else.                                    *)
(***************************************************************************)
EXTENDS Naturals, Sequences

CONSTANTS Uploaders, \* the requests that may be open at once: 1..their number
          Chunks,    \* bound: the chunks of a body
          MaxUploads \* bound: uploads begun

ASSUME UploadAssumption ==
    /\ Uploaders \subseteq Nat
    /\ Chunks \in Nat \ {0} /\ MaxUploads \in Nat

VARIABLES body,      \* of each request: the chunks received so far, or Idle
          otaStatus, \* ota_status_: 0, 200, or Failed for 400 and 500
          otaActive, \* ota_active_: the loop is parked
          image,     \* what Update was given since it began
          flash,     \* the image Update accepted last
          rebootAt,  \* is reboot_at_ms_ set?
          uploads,   \* bound: uploads left
          stuck      \* history: while the loop was parked a client left, or a restart was
                     \* asked for the instant 0

uploadVars == <<body, otaStatus, otaActive, image, flash, rebootAt, uploads, stuck>>

Idle == Chunks + 1
Failed == 500
NoImage == <<>>
Pieces == Uploaders \X (1..Chunks)

UploadInit ==
    /\ body = [u \in Uploaders |-> Idle]
    /\ otaStatus = 0 /\ otaActive = FALSE
    /\ image = NoImage /\ flash = NoImage
    /\ rebootAt = FALSE /\ uploads \in 0..MaxUploads /\ stuck = FALSE

\* Mutant: a failure leaves the loop parked.
FailOtaParked == otaStatus' = Failed /\ image' = NoImage /\ UNCHANGED <<otaActive, flash>>

\* WebServer::failOta.
FailOta ==
    otaStatus' = Failed /\ otaActive' = FALSE /\ image' = NoImage /\ UNCHANGED flash

\* Mutant: what Update.write returns is not looked at.
WriteUnchecked(u, k, before) ==
    \E written \in {before, Append(before, <<u, k>>)} :
        /\ otaActive' = TRUE
        /\ \/ otaStatus' = 0 /\ k < Chunks /\ image' = written /\ UNCHANGED flash
           \/ otaStatus' = 200 /\ k = Chunks /\ image' = NoImage /\ flash' = written

\* Update.write, and Update.end after the last chunk: each may fail, and what is written
\* when Update is not running does.
WriteChunk(u, k, before) ==
    \/ /\ otaStatus' = 0 /\ otaActive' = TRUE
       /\ k < Chunks /\ image' = Append(before, <<u, k>>) /\ UNCHANGED flash
    \/ /\ otaStatus' = 200 /\ otaActive' = TRUE
       /\ k = Chunks /\ image' = NoImage /\ flash' = Append(before, <<u, k>>)
    \/ FailOta

\* handleFileUploadData, the first chunk: the previous outcome is cleared, the name
\* checked, and Update begun anew.
FirstChunk(u) ==
    /\ body[u] = Idle /\ uploads > 0
    /\ \A v \in Uploaders : v < u => body[v] # Idle
    /\ uploads' = uploads - 1 /\ body' = [body EXCEPT ![u] = 1]
    /\ FailOta \/ WriteChunk(u, 1, <<>>)
    /\ stuck' = FALSE /\ UNCHANGED rebootAt

\* handleFileUploadData, a later chunk: swallowed once the outcome is known.
LaterChunk(u) ==
    LET k == body[u] + 1 IN
    /\ body[u] < Chunks /\ body' = [body EXCEPT ![u] = k]
    /\ \/ otaStatus # 0 /\ UNCHANGED <<otaStatus, otaActive, image, flash>>
       \/ otaStatus = 0 /\ WriteChunk(u, k, image)
    /\ UNCHANGED <<rebootAt, uploads, stuck>>

\* WebServer::requestReboot: the instant asked for may be 0, which means none.
RequestReboot ==
    \/ rebootAt' = TRUE /\ stuck' = FALSE
    \/ rebootAt' = FALSE /\ stuck' = otaActive

\* handleFileUploadResponse.
Respond(u) ==
    /\ body[u] = Chunks /\ body' = [body EXCEPT ![u] = Idle]
    /\ IF otaStatus = 200 THEN RequestReboot ELSE UNCHANGED <<rebootAt, stuck>>
    /\ UNCHANGED <<otaStatus, otaActive, image, flash, uploads>>

\* The connection drops: neither handler is called again for this request.
Leave(u) ==
    /\ body[u] # Idle /\ body' = [body EXCEPT ![u] = Idle]
    /\ UNCHANGED <<otaStatus, otaActive, image, flash, rebootAt, uploads>>
    /\ stuck' = (stuck \/ otaActive)

\* A restart, asked for or not.
UploadRestart ==
    /\ body' = [u \in Uploaders |-> Idle]
    /\ otaStatus' = 0 /\ otaActive' = FALSE /\ image' = NoImage /\ rebootAt' = FALSE
    /\ stuck' = FALSE
    /\ UNCHANGED <<flash, uploads>>

Receive(u) == FirstChunk(u) \/ LaterChunk(u) \/ Respond(u)
UploadStep == \E u \in Uploaders : Receive(u) \/ Leave(u)

-----------------------------------------------------------------------------
(* Properties *)

UploadTypeOK ==
    /\ body \in [Uploaders -> 1..Idle] /\ otaStatus \in {0, 200, Failed}
    /\ otaActive \in BOOLEAN /\ rebootAt \in BOOLEAN /\ stuck \in BOOLEAN
    /\ image \in Seq(Pieces) /\ flash \in Seq(Pieces)
    /\ uploads \in 0..MaxUploads

\* An image that Update accepted and that came from one client is that client's whole body,
\* in order, whatever else failed or was begun meanwhile.  (Two bodies at once can be mixed.)
FlashWhole ==
    \A u \in Uploaders :
        flash # NoImage /\ (\A i \in DOMAIN flash : flash[i][1] = u)
        => flash = [k \in 1..Chunks |-> <<u, k>>]

\* The loop is not left parked: an upload that fails, at whatever step, releases it, and one
\* that succeeds restarts the node.  Excepted, because the code does leave it parked: the
\* client whose connection drops, and a restart asked for the instant 0.
LoopReleased == otaActive ~> ~otaActive \/ stuck
=============================================================================
