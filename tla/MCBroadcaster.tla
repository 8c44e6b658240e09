---------------------------- MODULE MCBroadcaster ----------------------------
(***************************************************************************)
(* TLC instances of Broadcaster: two providers (HOT is 1, COLD is 2, as in *)
(* configs.js) and one revocable user.                                     *)
(***************************************************************************)
EXTENDS Broadcaster

\* initializeChannel may not have been run for a company.
MCInitialFiles == {NoFile, <<0>>}

MCServerReplies == {<<0>>, <<0, 5>>, ErrorPage}

=============================================================================
