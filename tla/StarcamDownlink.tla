--------------------------- MODULE StarcamDownlink ---------------------------
(***************************************************************************)
(* The star camera image server of Ophiuchus (Oph/src/starcam_downlink.c). *)
(*                                                                         *)
(* The camera thread hands every new image to notifyImageServer; the        *)
(* server thread answers UDP requests and streams the current image in      *)
(* chunks under a bandwidth limit.  The two share the slots current_image   *)
(* and pending_image under image_mutex, and transmission_state, which the   *)
(* server writes without the mutex.  An image that arrives during a         *)
(* transmission waits in the pending slot.                                  *)
(*                                                                         *)
(* The critical sections of the server are single steps that wait until     *)
(* the camera thread does not hold the mutex.  The one of the camera thread *)
(* is split, because the server reads the fields of current_image, and      *)
(* writes transmission_state, without taking the mutex.                     *)
(***************************************************************************)
EXTENDS Integers

CONSTANTS MaxImages,    \* bound: images the camera takes
          Sizes,        \* sizes of compressed images, in chunks
          ChunkCost,    \* bytes of a chunk message ...
          SmallCost,    \* ... and of any other message, in some unit
          MaxBps,       \* max_bandwidth_kbps in the same unit per second
          SendCanFail   \* whether sendto can fail (the socket is non-blocking)

ASSUME StarcamAssumption ==
    /\ MaxImages \in Nat
    /\ Sizes \subseteq Nat \ {0}
    /\ ChunkCost \in Nat /\ SmallCost \in Nat /\ MaxBps \in Nat
    /\ SendCanFail \in BOOLEAN

VARIABLES
    current,        \* current_image
    pending,        \* pending_image
    tx,             \* transmission_state
    cam, new,       \* where the camera thread is, and the image it stores
    taken,          \* the number and the timestamp of the last image taken
    srv, buf,       \* where the server is, and the data pointer it sends from
    server_running,
    bytes_sent,     \* bandwidth_tracker.bytes_sent
    fresh,          \* time(NULL) differs from bandwidth_tracker.last_update
    main,           \* where main is with cleanupStarcamDownlink
    streamed,       \* history: images whose chunks this transmission has sent
    torn            \* history: the chunks were counted while the camera thread stored

camVars  == <<cam, new, taken>>
slots    == <<current, pending>>
sendVars == <<bytes_sent, fresh>>
vars == <<current, pending, tx, cam, new, taken, srv, buf, server_running,
          bytes_sent, fresh, main, streamed, torn>>

-----------------------------------------------------------------------------
\* An image: a number, its timestamp in seconds, its size.  Two images of the
\* same second have the same timestamp.
Image == [valid : BOOLEAN, id : 0..MaxImages, ts : 0..MaxImages, chunks : Nat]
NoImage == [valid |-> FALSE, id |-> 0, ts |-> 0, chunks |-> 0]

Idle == [active |-> FALSE, ts |-> 0, total |-> 0, sent |-> 0]

\* The fields of current_image are being replaced.
CamStores == cam \in {"free", "stamp", "data"}
CamHoldsMutex == cam \in {"decide", "free", "stamp", "data"}

\* Mutant: the limit is compared before the message is added.
can_send_data_BeforeAdding(c) == bytes_sent < MaxBps

\* can_send_data
can_send_data(c) == bytes_sent + c <= MaxBps

\* update_bandwidth_usage, called only after a successful sendto
update_bandwidth_usage(c) ==
    /\ bytes_sent' = IF fresh THEN c ELSE bytes_sent + c
    /\ fresh' = FALSE

\* send_message when its result is ignored
send_message(c) ==
    \/ can_send_data(c) /\ update_bandwidth_usage(c)
    \/ ~can_send_data(c) /\ UNCHANGED sendVars
    \/ SendCanFail /\ UNCHANGED sendVars

Init == /\ current = NoImage /\ pending = NoImage /\ tx = Idle
        /\ cam = "idle" /\ new = NoImage /\ taken = [id |-> 0, ts |-> 0]
        /\ srv = "boot" /\ buf = NoImage /\ server_running = FALSE
        /\ bytes_sent = 0 /\ fresh = TRUE /\ main = "running"
        /\ streamed = {} /\ torn = FALSE

-----------------------------------------------------------------------------
(* The camera thread: notifyImageServer and replace_current_image *)

notifyImageServer(t, n) ==
    /\ cam = "idle" /\ main = "running" /\ server_running
    /\ taken.id < MaxImages
    /\ taken' = [id |-> taken.id + 1, ts |-> t]
    /\ new' = [valid |-> TRUE, id |-> taken.id + 1, ts |-> t, chunks |-> n]
    /\ cam' = "lock"
    /\ UNCHANGED <<tx, srv, buf, server_running, main, streamed, torn>>
    /\ UNCHANGED slots /\ UNCHANGED sendVars

\* The mutex is taken and the image compressed; an error gives it up.
CamCompress ==
    /\ cam = "lock"
    /\ cam' \in {"decide", "idle"}
    /\ UNCHANGED <<new, taken, tx, srv, buf, server_running, main, streamed, torn>>
    /\ UNCHANGED slots /\ UNCHANGED sendVars

\* A transmission is active: the image goes to the pending slot.
CamStorePending ==
    /\ cam = "decide" /\ tx.active
    /\ pending' = new
    /\ cam' = "idle"
    /\ UNCHANGED <<current, new, taken, tx, srv, buf, server_running, main, streamed, torn>>
    /\ UNCHANGED sendVars

\* Mutant: the camera thread does not ask whether a transmission is active.
CamReplace_Always ==
    /\ cam = "decide"
    /\ cam' = "free"
    /\ UNCHANGED <<new, taken, tx, srv, buf, server_running, main, streamed, torn>>
    /\ UNCHANGED slots /\ UNCHANGED sendVars

\* No transmission: the current image is replaced.
CamReplace ==
    /\ cam = "decide" /\ ~tx.active
    /\ cam' = "free"
    /\ UNCHANGED <<new, taken, tx, srv, buf, server_running, main, streamed, torn>>
    /\ UNCHANGED slots /\ UNCHANGED sendVars

\* free_image_data(&current_image)
CamFree ==
    /\ cam = "free"
    /\ current' = [current EXCEPT !.valid = FALSE]
    /\ cam' = "stamp"
    /\ UNCHANGED <<pending, new, taken, tx, srv, buf, server_running, main, streamed, torn>>
    /\ UNCHANGED sendVars

CamStamp ==
    /\ cam = "stamp"
    /\ current' = [current EXCEPT !.ts = new.ts]
    /\ cam' = "data"
    /\ UNCHANGED <<pending, new, taken, tx, srv, buf, server_running, main, streamed, torn>>
    /\ UNCHANGED sendVars

\* The remaining fields, valid = 1, and the mutex is released.
CamData ==
    /\ cam = "data"
    /\ current' = new
    /\ cam' = "idle"
    /\ UNCHANGED <<pending, new, taken, tx, srv, buf, server_running, main, streamed, torn>>
    /\ UNCHANGED sendVars

-----------------------------------------------------------------------------
(* The server thread: server_thread_func and handle_client_request *)

\* The socket is bound, or the thread returns.
ServerBoot ==
    /\ srv = "boot"
    /\ \/ srv' = "loop" /\ server_running' = TRUE
       \/ srv' = "exited" /\ UNCHANGED server_running
    /\ UNCHANGED <<tx, buf, main, streamed, torn>>
    /\ UNCHANGED camVars /\ UNCHANGED slots /\ UNCHANGED sendVars

ServerLoop ==
    /\ srv = "loop"
    /\ srv' = IF server_running THEN "recv" ELSE "exited"
    /\ UNCHANGED <<tx, buf, server_running, main, streamed, torn>>
    /\ UNCHANGED camVars /\ UNCHANGED slots /\ UNCHANGED sendVars

\* Nothing to read, or a message that is too short or of unknown type.
RecvNothing ==
    /\ srv = "recv"
    /\ srv' = "cont"
    /\ UNCHANGED <<tx, buf, server_running, main, streamed, torn>>
    /\ UNCHANGED camVars /\ UNCHANGED slots /\ UNCHANGED sendVars

\* MSG_GET_STATUS is answered.
GetStatus ==
    /\ srv = "recv" /\ ~CamHoldsMutex
    /\ send_message(SmallCost)
    /\ srv' = "cont"
    /\ UNCHANGED <<tx, buf, server_running, main, streamed, torn>>
    /\ UNCHANGED camVars /\ UNCHANGED slots

\* MSG_GET_IMAGE_BY_TIMESTAMP is answered only when there is no image.
GetByTimestamp ==
    /\ srv = "recv" /\ ~CamHoldsMutex
    /\ IF current.valid THEN UNCHANGED sendVars ELSE send_message(SmallCost)
    /\ srv' = "cont"
    /\ UNCHANGED <<tx, buf, server_running, main, streamed, torn>>
    /\ UNCHANGED camVars /\ UNCHANGED slots

\* MSG_GET_LATEST_IMAGE: get_latest_image returns &current_image, unlocked.
GetLatest ==
    /\ srv = "recv" /\ ~CamHoldsMutex
    /\ IF current.valid
       THEN srv' = "begin" /\ UNCHANGED sendVars
       ELSE srv' = "cont" /\ send_message(SmallCost)
    /\ UNCHANGED <<tx, buf, server_running, main, streamed, torn>>
    /\ UNCHANGED camVars /\ UNCHANGED slots

\* The fields of transmission_state are set one by one, without the mutex.
TxBegin ==
    /\ srv = "begin"
    /\ tx' = [tx EXCEPT !.active = TRUE]
    /\ streamed' = {}
    /\ srv' = "stamp"
    /\ UNCHANGED <<buf, server_running, main, torn>>
    /\ UNCHANGED camVars /\ UNCHANGED slots /\ UNCHANGED sendVars

TxStamp ==
    /\ srv = "stamp"
    /\ tx' = [tx EXCEPT !.ts = current.ts]
    /\ srv' = "count"
    /\ UNCHANGED <<buf, server_running, main, streamed, torn>>
    /\ UNCHANGED camVars /\ UNCHANGED slots /\ UNCHANGED sendVars

TxCount ==
    /\ srv = "count"
    /\ tx' = [tx EXCEPT !.total = current.chunks, !.sent = 0]
    /\ torn' = CamStores
    /\ srv' = "header"
    /\ UNCHANGED <<buf, server_running, main, streamed>>
    /\ UNCHANGED camVars /\ UNCHANGED slots /\ UNCHANGED sendVars

TxHeader ==
    /\ srv = "header"
    /\ send_message(SmallCost)
    /\ srv' = "cont"
    /\ UNCHANGED <<tx, buf, server_running, main, streamed, torn>>
    /\ UNCHANGED camVars /\ UNCHANGED slots

-----------------------------------------------------------------------------
(* continue_transmission *)

NothingToSend ==
    /\ srv = "cont" /\ ~tx.active
    /\ srv' = "loop"
    /\ UNCHANGED <<tx, buf, server_running, main, streamed, torn>>
    /\ UNCHANGED camVars /\ UNCHANGED slots /\ UNCHANGED sendVars

\* Mutant: on_transmission_complete is not called.
AbortTransmission_NoPromote ==
    /\ srv = "cont" /\ tx.active /\ ~CamHoldsMutex
    /\ ~current.valid \/ current.ts # tx.ts
    /\ tx' = [tx EXCEPT !.active = FALSE]
    /\ srv' = "loop"
    /\ UNCHANGED <<buf, server_running, main, streamed, torn>>
    /\ UNCHANGED camVars /\ UNCHANGED slots /\ UNCHANGED sendVars

\* The image is gone or has another timestamp: the transmission is abandoned.
AbortTransmission ==
    /\ srv = "cont" /\ tx.active /\ ~CamHoldsMutex
    /\ ~current.valid \/ current.ts # tx.ts
    /\ tx' = [tx EXCEPT !.active = FALSE]
    /\ srv' = "promote"
    /\ UNCHANGED <<buf, server_running, main, streamed, torn>>
    /\ UNCHANGED camVars /\ UNCHANGED slots /\ UNCHANGED sendVars

\* Mutant: the mutex is not taken to look at the image.
FetchData_NoLock ==
    /\ srv = "cont" /\ tx.active
    /\ current.valid /\ current.ts = tx.ts
    /\ buf' = current
    /\ srv' = "chunks"
    /\ UNCHANGED <<tx, server_running, main, streamed, torn>>
    /\ UNCHANGED camVars /\ UNCHANGED slots /\ UNCHANGED sendVars

\* The data pointer is read under the mutex and used after its release.
FetchData ==
    /\ srv = "cont" /\ tx.active /\ ~CamHoldsMutex
    /\ current.valid /\ current.ts = tx.ts
    /\ buf' = current
    /\ srv' = "chunks"
    /\ UNCHANGED <<tx, server_running, main, streamed, torn>>
    /\ UNCHANGED camVars /\ UNCHANGED slots /\ UNCHANGED sendVars

\* Mutant: chunks_sent is not counted up.
SendChunk_NotCounted ==
    /\ srv = "chunks" /\ tx.sent < tx.total
    /\ can_send_data(ChunkCost) /\ update_bandwidth_usage(ChunkCost)
    /\ streamed' = streamed \cup {buf.id}
    /\ UNCHANGED <<tx, srv, buf, server_running, main, torn>>
    /\ UNCHANGED camVars /\ UNCHANGED slots

\* A chunk of the image the data pointer belongs to goes out.
SendChunk ==
    /\ srv = "chunks" /\ tx.sent < tx.total
    /\ can_send_data(ChunkCost) /\ update_bandwidth_usage(ChunkCost)
    /\ tx' = [tx EXCEPT !.sent = @ + 1]
    /\ streamed' = streamed \cup {buf.id}
    /\ UNCHANGED <<srv, buf, server_running, main, torn>>
    /\ UNCHANGED camVars /\ UNCHANGED slots

\* The bandwidth limit or an error ends the loop; the next round goes on.
SendChunkLater ==
    /\ srv = "chunks" /\ tx.sent < tx.total
    /\ ~can_send_data(ChunkCost) \/ SendCanFail
    /\ srv' = "loop"
    /\ UNCHANGED <<tx, buf, server_running, main, streamed, torn>>
    /\ UNCHANGED camVars /\ UNCHANGED slots /\ UNCHANGED sendVars

\* MSG_IMAGE_COMPLETE, then transmission_state is zeroed without the mutex.
CompleteTransmission ==
    /\ srv = "chunks" /\ tx.sent >= tx.total
    /\ send_message(SmallCost)
    /\ tx' = Idle
    /\ srv' = "promote"
    /\ UNCHANGED <<buf, server_running, main, streamed, torn>>
    /\ UNCHANGED camVars /\ UNCHANGED slots

\* on_transmission_complete
on_transmission_complete ==
    /\ srv = "promote" /\ ~CamHoldsMutex
    /\ tx' = [tx EXCEPT !.active = FALSE]
    /\ IF pending.valid
       THEN current' = pending /\ pending' = NoImage
       ELSE UNCHANGED slots
    /\ srv' = "loop"
    /\ UNCHANGED <<buf, server_running, main, streamed, torn>>
    /\ UNCHANGED camVars /\ UNCHANGED sendVars

-----------------------------------------------------------------------------
(* cleanupStarcamDownlink, called by main after the camera thread has ended *)

Cleanup ==
    /\ main = "running" /\ cam = "idle"
    /\ server_running' = FALSE /\ main' = "join"
    /\ UNCHANGED <<tx, srv, buf, streamed, torn>>
    /\ UNCHANGED camVars /\ UNCHANGED slots /\ UNCHANGED sendVars

CleanupFree ==
    /\ main = "join" /\ srv = "exited"
    /\ current' = [current EXCEPT !.valid = FALSE]
    /\ pending' = [pending EXCEPT !.valid = FALSE]
    /\ main' = "done"
    /\ UNCHANGED <<tx, srv, buf, server_running, streamed, torn>>
    /\ UNCHANGED camVars /\ UNCHANGED sendVars

\* Another second begins.
Tick == /\ ~fresh /\ fresh' = TRUE
        /\ UNCHANGED <<tx, srv, buf, server_running, bytes_sent, main, streamed, torn>>
        /\ UNCHANGED camVars /\ UNCHANGED slots

-----------------------------------------------------------------------------
TakeImage == \E t \in {taken.ts, taken.ts + 1}, n \in Sizes : notifyImageServer(t, n)

Camera == \/ CamCompress \/ CamStorePending \/ CamReplace
          \/ CamFree \/ CamStamp \/ CamData

Server == \/ ServerBoot \/ ServerLoop \/ RecvNothing
          \/ GetStatus \/ GetByTimestamp \/ GetLatest
          \/ TxBegin \/ TxStamp \/ TxCount \/ TxHeader
          \/ NothingToSend \/ AbortTransmission \/ FetchData
          \/ SendChunk \/ SendChunkLater \/ CompleteTransmission
          \/ on_transmission_complete

Terminated == main = "done" /\ UNCHANGED vars

Next == \/ TakeImage \/ Camera \/ Server
        \/ Cleanup \/ CleanupFree \/ Tick \/ Terminated

Spec == Init /\ [][Next]_vars

\* Both threads are scheduled, time goes on, and a network that refuses a chunk
\* again and again takes it in the end.
FairSpec == /\ Spec
            /\ WF_vars(Camera) /\ WF_vars(Server) /\ WF_vars(Tick)
            /\ SF_vars(SendChunk)

-----------------------------------------------------------------------------
(* Properties *)

\* The type invariant.
TypeOK ==
    /\ current \in Image /\ pending \in Image /\ new \in Image /\ buf \in Image
    /\ tx \in [active : BOOLEAN, ts : 0..MaxImages, total : Nat, sent : Nat]
    /\ cam \in {"idle", "lock", "decide", "free", "stamp", "data"}
    /\ taken \in [id : 0..MaxImages, ts : 0..MaxImages]
    /\ srv \in {"boot", "loop", "recv", "begin", "stamp", "count", "header",
                "cont", "chunks", "promote", "exited"}
    /\ server_running \in BOOLEAN /\ fresh \in BOOLEAN
    /\ bytes_sent \in 0..MaxBps
    /\ main \in {"running", "join", "done"}
    /\ streamed \subseteq 0..MaxImages /\ torn \in BOOLEAN

\* The data pointer that continue_transmission uses after it released the
\* mutex still belongs to the valid current image: the camera thread never
\* frees the data that is being sent.
BufferLive == srv = "chunks" => current = buf /\ current.valid

\* All chunks that follow one request come from one image, although the
\* server gives up and takes up the transmission again at every limit; and they
\* are as many as that image has, unless the camera thread was in the middle of
\* storing it when they were counted.
OneImagePerTransmission ==
    /\ \A a, b \in streamed : a = b
    /\ tx.sent <= tx.total
    /\ srv = "chunks" /\ ~torn => tx.total = buf.chunks

\* A pending image has somebody who will promote it: it never waits for a
\* client to ask for another image.
PendingIsPromoted == pending.valid /\ srv # "exited" => tx.active \/ srv = "promote"

\* A transmission that has begun comes to its end, however the camera thread
\* and failing sends interfere, unless the bandwidth limit stops it or another
\* request starts it anew.
TransmissionEnds ==
    (tx.active /\ main = "running")
        ~> \/ ~tx.active \/ main # "running"
           \/ ~can_send_data(ChunkCost) \/ srv = "begin"

=============================================================================
