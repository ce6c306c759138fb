---------------------------- MODULE KinectManager ----------------------------
(***************************************************************************)
(* libkghost/src/kinect_manager.c: what happens between libfreenect and the  *)
(* program's callbacks when the device delivers video and depth.             *)
(*                                                                          *)
(* The record timer is read only when video arrives; depth is passed on with  *)
(* the time of the video before it.  libfreenect is external: it calls back   *)
(* from within kinect_manager_capture_frame, on the caller's thread, any      *)
(* number of times, for video and depth in any order, and loses some.         *)
(***************************************************************************)
EXTENDS Integers

CONSTANT MaxTime                \* bound: the highest reading of the timer

VARIABLES record_timestamp,     \* the last reading of the record timer
          capturing             \* within freenect_process_events_timeout

kinectVars == <<record_timestamp, capturing>>

\* kinect_manager_create and _init_freenect.
KinectInit == record_timestamp = 0 /\ capturing = FALSE

\* kinect_manager_capture_frame: its call of libfreenect, and that call's end.
StartCapture == ~capturing /\ capturing' = TRUE /\ UNCHANGED record_timestamp
EndCapture == capturing /\ capturing' = FALSE /\ UNCHANGED record_timestamp

\* timer_current.  The timer counts nanoseconds, pictures come 33 ms apart: no
\* two readings are equal, and by how much they differ nobody asks.
ReadTimer ==
    /\ record_timestamp < MaxTime
    /\ record_timestamp' = record_timestamp + 1

\* _video_cb, which passes record_timestamp' on.
VideoArrives == capturing /\ ReadTimer /\ UNCHANGED capturing

\* Mutant: depth is given a time of its own.
DepthArrivesTimed == capturing /\ ReadTimer /\ UNCHANGED capturing

\* _depth_cb, which passes record_timestamp' on.
DepthArrives == capturing /\ UNCHANGED kinectVars
=============================================================================
