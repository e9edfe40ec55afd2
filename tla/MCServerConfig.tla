---------------------------- MODULE MCServerConfig ----------------------------
(* Instances of ServerConfig for TLC. *)
EXTENDS ServerConfig

\* Both learned models on both types, more and fewer UEs, and the models
\* that do not learn.
MCConfigs ==
  [model : {"PPO", "DQN"}, type : {"Basic", "ISAC"}, ues : {2}] \cup
  {[model |-> "DQN", type |-> "Basic", ues |-> 3],
   [model |-> "PPO", type |-> "ISAC", ues |-> 3],
   [model |-> "PPO", type |-> "Basic", ues |-> 1],
   [model |-> "Static", type |-> "Fixed", ues |-> 2],
   [model |-> "Static", type |-> "Basic", ues |-> 2],
   [model |-> "Random", type |-> "Basic", ues |-> 2]}

MCFixed == [v |-> 3, wq |-> 0, wg |-> 1]
=============================================================================
