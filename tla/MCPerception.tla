---------------------------- MODULE MCPerception ----------------------------
(* Two messages of a bot with one of the owner's, or one and the group's     *)
(* talk.  An answer to the owner may push the one to the bot out of sight.   *)
EXTENDS Perception
CONSTANTS bot, owner, b1, b2, o1, g1, g2
MCActor == [m \in Direct |-> IF m = o1 THEN owner ELSE bot]
MCLoads == {{b1, b2, o1}, {b1, g1, g2}}
=============================================================================
