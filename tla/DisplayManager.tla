--------------------------- MODULE DisplayManager ---------------------------
(***************************************************************************)
(* libkghost/src/display_manager.c: a picture is made of the layers that were *)
(* set since it was prepared, each in a texture of its own.  Textures keep     *)
(* what they were given until they are given something else.                  *)
(*                                                                          *)
(* The manager is a record, its functions are operators on it: `shown' is what *)
(* the last swap of the buffers put on the screen.  OpenGL is external, and    *)
(* does as it is told.                                                       *)
(***************************************************************************)
EXTENDS Integers, Sequences

CONSTANT TEXTURE_CAPACITY

Blank == "blank"

\* display_manager_create and _init_opengl.
display_manager_create ==
    [layer_count |-> 0,
     textures |-> [i \in 1 .. TEXTURE_CAPACITY |-> Blank],
     shown |-> <<>>]

\* Mutant: the layers of the picture before stay.
PrepareNothing(manager) == manager
prepare_frame(manager) == [manager EXCEPT !.layer_count = 0]

\* A layer that finds no texture left is dropped, with an error its caller logs.
set_frame_layer(manager, layer) ==
    LET n == manager.layer_count
    IN  IF n >= TEXTURE_CAPACITY
        THEN manager
        ELSE [layer_count |-> n + 1,
              textures |-> [manager.textures EXCEPT ![n + 1] = layer],
              shown |-> manager.shown]

\* The shader draws the first layer_count textures.
display_frame(manager) ==
    [manager EXCEPT !.shown = SubSeq(manager.textures, 1, manager.layer_count)]
=============================================================================
