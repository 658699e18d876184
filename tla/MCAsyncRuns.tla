---------------------------- MODULE MCAsyncRuns -----------------------------
(* Three definitions, and three names so that they may or may not share one *)
EXTENDS AsyncRuns

Three == 1 .. 3
Two == 1 .. 2
Names == {"n1", "n2", "n3"}
==============================================================================
