---------------------------- MODULE MCPosterTint ----------------------------
(* Two titles, which two cards may show in turn, and a provider's logo.    *)
EXTENDS PosterTint

CONSTANTS c1, c2, chip, netflix, light
=============================================================================
