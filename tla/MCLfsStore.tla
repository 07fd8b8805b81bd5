----------------------------- MODULE MCLfsStore -----------------------------
(* Instances of LfsStore for TLC.                                          *)
EXTENDS LfsStore

CONSTANTS r1, r2, r3

TheRepo == Path(<<"group", "repo">>)

(* The batch endpoint as clients reach it: plain, and from a remote URL    *)
(* with slashes before and after it.                                       *)
Endpoints ==
    {<<Empty>> \o TheRepo \o LfsBatch,
     <<Empty, Empty>> \o TheRepo \o <<Empty>> \o LfsBatch}
=============================================================================
