--------------------------- MODULE MCHNZCommands ---------------------------
(* HNZCommands for TLC: a TC and a TVC at the same address, and a TC whose  *)
(* last digit does not fit in its frame.                                    *)
EXTENDS HNZCommands

Command(id, type, addr) == [id |-> id, type |-> type, addr |-> addr]
ThreeCommands == {Command(1, "TC", 17), Command(2, "TVC", 17), Command(3, "TC", 18)}
=============================================================================
