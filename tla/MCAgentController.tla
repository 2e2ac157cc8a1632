-------------------------- MODULE MCAgentController --------------------------
(* Two frames in each state; the shortest way to success uses every slot.  *)
EXTENDS AgentController

MCBudget == [s \in States \ {"terminal"} |-> 2]
MCDelay == [d \in {"press_start", "frontend_confirm", "attack_burst"} |->
               IF d = "frontend_confirm" THEN 0 ELSE 1]
=============================================================================
