--------------------------- MODULE MCEpisodeStore ---------------------------
(* EpisodeStore for two requests and passes of four stages.                *)
EXTENDS EpisodeStore

CONSTANTS e1, e2

Requests == {e1, e2}
PauseRequest == {e2}
Pass == <<"start", "admit", "active", "free", "active">>
=============================================================================
