--------------------------- MODULE MCAgentLifecycle ---------------------------
(* An instance of AgentLifecycle for TLC: an agent that is declared once as a container *)
(* with two mounts and once as a Lambda function.                                       *)
EXTENDS AgentLifecycle

CONSTANTS echo, image, function

Mounts == [c \in Configs |-> IF c = image THEN 2 ELSE 0]
===============================================================================
