------------------------------ MODULE MCJobRun ------------------------------
(***************************************************************************)
(* JobRun for TLC: an API job and two device jobs, one of which runs at a  *)
(* time.  Each job has one test.                                           *)
(***************************************************************************)
EXTENDS JobRun

OneApiTest == <<"api.tenant">>
OneD2dTest == <<"d2d.version">>
AllFiles   == RunFiles \cup UNION {DeviceFiles(j) : j \in Jobs}
JobFiles   == AllFiles \ {<<"run", "merged">>}
=============================================================================
