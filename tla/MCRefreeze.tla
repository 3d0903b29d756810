------------------------------- MODULE MCRefreeze -------------------------------
(***************************************************************************)
(* Instances of Refreeze for TLC: the files of SPEC, in its order.         *)
(***************************************************************************)
EXTENDS Refreeze

CONSTANTS good, bad   \* the deployment, and an address that is none

MCAddresses == {good, bad, Placeholder}
MCGenuine == {good}

MCDigests == <<"Spartan1.t.sol", "test_spartan1.py", "sdk.test.ts", "SPEC.md", "index.html">>
MCSpenders == <<"Spartan1.t.sol", "test_spartan1.py", "sdk.test.ts", "test_relay.py",
                "distribution/index.html", "index.html">>
MCGenerated == <<"constants.ts", "constants.js">>
MCPinned == {"order.py", "maker.py", "distribution/index.html",
             "constants.ts", "constants.js"}
===============================================================================
