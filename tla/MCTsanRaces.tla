----------------------------- MODULE MCTsanRaces -----------------------------
EXTENDS TsanRaces

MCSyncOps == {[acq |-> TRUE, rel |-> "none"], [acq |-> TRUE, rel |-> "merge"],
              [acq |-> FALSE, rel |-> "store"]}
MCAccessTypes == {[read |-> r, atomic |-> FALSE] : r \in BOOLEAN}
=============================================================================
