---------------------------- MODULE MCTaskService ----------------------------
(* The service with two tasks, so that a control or a command can meet the    *)
(* run of another task; the configurations give the requests.                 *)
EXTENDS TaskService
=============================================================================
