------------------------------- MODULE Ghosts -------------------------------
(***************************************************************************)
(* kghost/src/main.c and libkghost/src/glut_main.c: the program.  What the   *)
(* kinect manager delivers while GLUT is idle goes to the director; when GLUT  *)
(* wants a picture, what the director plays goes to the display manager, and   *)
(* the live picture on top of it.                                            *)
(*                                                                          *)
(* Director, KinectManager and DisplayManager are extended: the program's     *)
(* actions are theirs, joined as main.c joins them.  What the user types is   *)
(* in Controls; here it could only change the cutoff of the live layer.       *)
(*                                                                          *)
(* GLUT is external: it calls the idle function only when no picture is asked  *)
(* for, and the display function also when the window system asks for one.    *)
(***************************************************************************)
EXTENDS Director, KinectManager, DisplayManager

CONSTANT DOWNSAMPLE

(* The director's layers leave one texture for the live picture.              *)
ASSUME GhostsAssumption ==
    /\ TEXTURE_CAPACITY = MaxLayers + 1
    /\ DOWNSAMPLE \in Nat \ {0}
    /\ MaxTime \in Nat /\ Timestamps = 0 .. MaxTime

VARIABLES
    redisplay,              \* glutPostRedisplay was called
    _downsample_counter,    \* modulo DOWNSAMPLE
    display_manager,
    running,                \* within glutMainLoop
    depths                  \* history: depth callbacks since the last video's

directorVars == vars
glutVars == <<redisplay, _downsample_counter, running>>
ghostsVars == <<directorVars, kinectVars, glutVars, display_manager, depths>>

\* _init.
GhostsInit ==
    /\ Init
    /\ KinectInit
    /\ display_manager = display_manager_create
    /\ redisplay = TRUE /\ _downsample_counter = 0 /\ running = TRUE
    /\ depths = 2

-----------------------------------------------------------------------------
(* _idle, and what happens before kinect_manager_capture_frame returns.       *)
Idle ==
    /\ running /\ ~redisplay
    /\ StartCapture
    /\ UNCHANGED <<directorVars, glutVars, display_manager, depths>>

\* _video_cb, the kinect manager's and main's.
Video ==
    /\ VideoArrives
    /\ CaptureVideo(record_timestamp')
    /\ depths' = 0
    /\ UNCHANGED <<glutVars, display_manager>>

\* _depth_cb.  (2 stands for every number above one, and for no video yet.)
Depth ==
    /\ DepthArrives
    /\ CaptureDepth(record_timestamp')
    /\ depths' = IF depths = 0 THEN 1 ELSE 2
    /\ UNCHANGED <<glutVars, display_manager>>

\* What director_capture_depth and _director_handle_new_frame do next, within
\* the same callback.
Proceed ==
    /\ CaptureMeta \/ Handle
    /\ UNCHANGED <<kinectVars, glutVars, display_manager, depths>>

\* The end of _idle.
IdleEnds(captured) ==
    /\ pc = "idle"
    /\ EndCapture
    /\ redisplay' = (redisplay \/ captured)
    /\ UNCHANGED <<directorVars, _downsample_counter, running,
                   display_manager, depths>>

-----------------------------------------------------------------------------
(* _display. *)

\* The data of a layer when it is copied to its textures.
Texels(layer) == [video |-> content[layer.video]["video"],
                  depth |-> content[layer.depth]["depth"],
                  cutoff |-> layer.cutoff]
Live == [video |-> "live", depth |-> "live", cutoff |-> "live"]

\* The layers in turn are set on the prepared display manager.
LayersSet(manager, layers) ==
    LET set[n \in 0 .. Len(layers)] ==
            IF n = 0 THEN prepare_frame(manager)
            ELSE set_frame_layer(set[n - 1], layers[n])
    IN  set[Len(layers)]

\* From display_manager_prepare_frame to display_manager_display_frame.
Draw(layers) ==
    display_manager' =
        display_frame(LayersSet(display_manager, Append(layers, Live)))

Drawing == _downsample_counter + 1 = DOWNSAMPLE

Display ==
    /\ running /\ ~capturing
    /\ redisplay' = FALSE
    /\ _downsample_counter' = (_downsample_counter + 1) % DOWNSAMPLE
    /\ IF ~Drawing
       THEN UNCHANGED <<directorVars, display_manager>>
       ELSE \/ /\ loops = <<>>
               /\ Draw(<<>>)
               /\ UNCHANGED directorVars
            \/ \E playing \in Filled :
                  /\ loops # <<>>
                  /\ Play(playing)
                  /\ Draw([i \in 1 .. MaxLayers |-> Texels(Shown(playing)[i])])
    /\ UNCHANGED <<kinectVars, running, depths>>

-----------------------------------------------------------------------------
(* glutMainLoop returns, if this GLUT's ever does, and _cleanup comes as far   *)
(* as command_destroy, whose loop frees the same handler again and again      *)
(* (command.c:87-90): the director is never released, and its threads go on.  *)
Cleanup ==
    /\ running /\ ~capturing
    /\ running' = FALSE
    /\ UNCHANGED <<directorVars, kinectVars, redisplay, _downsample_counter,
                   display_manager, depths>>

Others ==
    /\ Handler \/ Generator
    /\ UNCHANGED <<kinectVars, glutVars, display_manager, depths>>

Stopped == ~running /\ UNCHANGED ghostsVars

GhostsNext == \/ Idle \/ Video \/ Depth \/ Proceed
              \/ \E captured \in BOOLEAN : IdleEnds(captured)
              \/ Display \/ Cleanup \/ Others \/ Stopped

GhostsSpec == GhostsInit /\ [][GhostsNext]_ghostsVars

(* GLUT's loop goes on, a callback comes to its end, the system runs the       *)
(* threads that were started, and the device does not fail for ever.          *)
FairGhosts ==
    /\ GhostsSpec
    /\ WF_ghostsVars(Idle \/ Proceed \/ Display)
    /\ SF_ghostsVars(IdleEnds(TRUE))
    /\ WF_ghostsVars(Others /\ Handler)

-----------------------------------------------------------------------------
(* Every picture is whole: it has all of the director's layers or, before      *)
(* there is a loop, none, and the live picture on top; and a ghost's video,    *)
(* depth and cutoff were captured at one moment, after the first video,       *)
(* although depth takes its time from the video before it, threads publish    *)
(* loops meanwhile, and textures keep what they had (main.c:389-440).         *)
PicturesWhole ==
    LET shown == display_manager.shown
        ghosts == 1 .. Len(shown) - 1
    IN  shown # <<>> =>
            /\ shown[Len(shown)] = Live
            /\ Len(shown) \in {1, TEXTURE_CAPACITY}
            /\ \A i \in ghosts :
                  /\ shown[i].video \in 1 .. record_timestamp
                  /\ shown[i].depth = shown[i].video
                  /\ shown[i].cutoff = shown[i].video

\* The ghosts in a picture, by the time of their video.
GhostsOf(shown) == [i \in 1 .. Len(shown) - 1 |-> shown[i].video]
Follower(times, t) ==
    ((CHOOSE n \in 1 .. Len(times) : times[n] = t) % Len(times)) + 1

(* No frame of a ghost is left out or out of turn: from layer to layer and from *)
(* picture to picture each loop goes on by one frame and begins again after   *)
(* its last, although layers share its position, leave it and draw another     *)
(* while threads append more (director.c:231-283).                            *)
PicturesFollow ==
    [][(Drawing /\ Display /\ loops # <<>>) =>
          LET before == GhostsOf(display_manager.shown)
              all == before \o GhostsOf(display_manager'.shown)
          IN  \A i \in Len(before) + 1 .. Len(all) : \E l \in ToSet(loops) :
                LET times == loop[l].cutoffs
                    earlier == {j \in 1 .. i - 1 : all[j] \in ToSet(times)}
                IN  \E n \in 1 .. Len(times) :
                       /\ all[i] = times[n]
                       /\ IF earlier = {} THEN n = 1
                          ELSE n = Follower(times, all[Max(earlier)])
      ]_ghostsVars

(* A video makes a frame with the first depth that follows it, and with that  *)
(* one only: not with depth that came before it, nor with a later one         *)
(* (kinect_manager.c:464, 496; frame_store.c:876-900).                        *)
PairsUp ==
    [][/\ Len(frames') > Len(frames) => depths = 1
       /\ pc = "meta" /\ pc' # "meta" /\ depths = 1
             => Len(frames') = Len(frames) + 1]_ghostsVars

(* What was recorded is seen: when a loop is finished, a picture with ghosts   *)
(* follows, though a thread must publish the loop, the camera deliver, GLUT    *)
(* be told of it and the display function not skip (director.c:555-566, 645;  *)
(* main.c:367-370, 470-473).                                                 *)
GhostsAppear ==
    handlers # {} ~>
        (Len(display_manager.shown) = TEXTURE_CAPACITY \/ ~running)
=============================================================================
