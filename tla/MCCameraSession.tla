-------------------------- MODULE MCCameraSession --------------------------
(***************************************************************************)
(* Small instances of CameraSession: every device with one queued event    *)
(* behind each one that is handled, and for the frames of a stopped worker *)
(* one device with a longer queue.                                         *)
(***************************************************************************)
EXTENDS CameraSession

AllDevices == {"mjpeg", "yuyv", "unknown"}
OneDevice  == {"yuyv"}
=============================================================================
