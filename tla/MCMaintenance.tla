---------------------------- MODULE MCMaintenance ----------------------------
EXTENDS Maintenance

MCSid == [e \in Entry |-> e]
=============================================================================
