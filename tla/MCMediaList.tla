----------------------------- MODULE MCMediaList -----------------------------
(* Formats for MediaList: one codec is supported at one of two rates only. *)
EXTENDS MediaList

Formats == {<<"VP8", 90>>, <<"H264", 90>>, <<"opus", 48>>}

=============================================================================
