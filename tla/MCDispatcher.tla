---------------------------- MODULE MCDispatcher ----------------------------
EXTENDS Dispatcher, TLC

CONSTANTS w1, w2

OneSignal == {{}, {"SIGINT"}, {"SIGHUP"}}
AnySignals == SUBSET {"SIGINT", "SIGHUP"}
Hangup == {{}, {"SIGHUP"}}

Symmetry == Permutations(Workers)
=============================================================================
