----------------------------- MODULE MCPairing -----------------------------
\* A first phone set up step by step, a second one added from the summary or
\* from the settings, dialogs that open late, wrong and repeated codes.
EXTENDS Pairing

Ready1 == [mac |-> "running", seen |-> TRUE, certs |-> TRUE]
Old == [code |-> 0, saved |-> TRUE]

PairingPlans == {
    [opens |-> {"phone"}, tail |-> [mac |-> "stopped", seen |-> FALSE, certs |-> FALSE], made |-> <<>>,
     on |-> FALSE, finished |-> FALSE, calls |-> 2, clicks |-> 2, submits |-> 0, world |-> 3, faults |-> 0, polls |-> 2, reused |-> 0],
    [opens |-> {"phone"}, tail |-> [mac |-> "running", seen |-> TRUE, certs |-> FALSE], made |-> <<>>,
     on |-> TRUE, finished |-> FALSE, calls |-> 2, clicks |-> 2, submits |-> 1, world |-> 1, faults |-> 0, polls |-> 1, reused |-> 1],
    [opens |-> {"phone"}, tail |-> Ready1, made |-> <<>>,
     on |-> FALSE, finished |-> FALSE, calls |-> 2, clicks |-> 2, submits |-> 1, world |-> 0, faults |-> 1, polls |-> 1, reused |-> 0],
    [opens |-> {"phone", "open"}, tail |-> Ready1, made |-> <<Old>>,
     on |-> TRUE, finished |-> TRUE, calls |-> 2, clicks |-> 4, submits |-> 1, world |-> 0, faults |-> 0, polls |-> 1, reused |-> 0],
    [opens |-> {"settings"}, tail |-> Ready1, made |-> <<Old>>,
     on |-> TRUE, finished |-> FALSE, calls |-> 3, clicks |-> 3, submits |-> 1, world |-> 1, faults |-> 0, polls |-> 1, reused |-> 0],
    [opens |-> {"settings", "phone"}, tail |-> Ready1, made |-> <<>>,
     on |-> TRUE, finished |-> FALSE, calls |-> 2, clicks |-> 4, submits |-> 0, world |-> 0, faults |-> 0, polls |-> 2, reused |-> 0],
    [opens |-> {"phone"}, tail |-> Ready1, made |-> <<>>,
     on |-> TRUE, finished |-> FALSE, calls |-> 2, clicks |-> 1, submits |-> 4, world |-> 0, faults |-> 1, polls |-> 1, reused |-> 0],
    [opens |-> {"settings", "phone"}, tail |-> Ready1, made |-> <<Old>>,
     on |-> TRUE, finished |-> TRUE, calls |-> 2, clicks |-> 4, submits |-> 0, world |-> 0, faults |-> 1, polls |-> 1, reused |-> 0]}
=============================================================================
