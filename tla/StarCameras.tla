------------------------------ MODULE StarCameras ------------------------------
(* Both halves of the star camera of Ophiuchus: the thread that takes images and    *)
(* focuses, and the exchange of its images with the downlink server. They meet in   *)
(* notifyImageServer only, which round_ends of StarCamera leaves to the camera's    *)
(* steps of StarcamDownlink; one half runs in a behaviour, and each in turn.        *)
EXTENDS StarcamDownlink, StarCamera

VARIABLE half       \* the one that runs
camera_and_server == <<half, vars, camera_vars>>

\* A half at rest is in one of its initial states.
CamerasInit ==
    /\ half \in {"camera", "downlink"}
    /\ Init /\ CameraInit
    /\ half # "camera" => camera_session = CHOOSE s \in CameraSessions : TRUE

RunsCamera == half = "camera" /\ CameraNext /\ UNCHANGED <<half, vars>>
RunsDownlink == half = "downlink" /\ Next /\ UNCHANGED <<half, camera_vars>>
CamerasNext == RunsCamera \/ RunsDownlink

\* The fairness of both modules; a camera that is not started has nothing to do.
CamerasSpec ==
    /\ CamerasInit /\ [][CamerasNext]_camera_and_server
    /\ WF_vars(half = "downlink" /\ Camera) /\ WF_vars(half = "downlink" /\ Server)
    /\ WF_vars(half = "downlink" /\ Tick) /\ SF_vars(half = "downlink" /\ SendChunk)
    /\ CameraFair

-----------------------------------------------------------------------------
\* The variables of both modules keep their types, and the bytes of a second their limit.
CamerasTypeOK == TypeOK /\ CameraTypeOK

\* A search of the focus writes no row out of its arrays or without its file, uses no
\* buffer that was freed, and leaves the hot pixels as they were.
SearchIsSafe == RowsHaveRoom /\ ImageBuffersLive /\ HotPixelsBack

\* Transmissions, searches and stops of the camera come to their end.
CamerasGoOn == TransmissionEnds /\ CameraEnds
=============================================================================
