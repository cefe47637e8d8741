---------------------------- MODULE MCAttachments ----------------------------
(* Instances of Attachments for TLC. *)
EXTENDS Attachments

CONSTANTS a, b   \* albums

(* Two parts of an album, with one of another and a single file between.   *)
MCAlbumOf == <<a, b, a, Alone>>
(* The same name twice, and a file named as the first one's copy.          *)
MCNameOf == <<<<1>>, <<1>>, <<1, Resized>>, <<1>>>>
=============================================================================
