--------------------------- MODULE MCReplyControls ---------------------------
(* Small instances of ReplyControls for TLC: one user owns every event and    *)
(* every call, another may send SMS commands.                                 *)
EXTENDS ReplyControls

Owner == CHOOSE u \in Users : TRUE

EventsOfOne == [e \in Events |-> Owner]
CallsOfOne  == [c \in Calls |-> Owner]
=============================================================================
