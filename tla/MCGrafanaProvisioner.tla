------------------------ MODULE MCGrafanaProvisioner ------------------------
(* A small instance of GrafanaProvisioner for TLC. *)
EXTENDS GrafanaProvisioner

CONSTANTS first, second, incomplete

Deployment(type, version) == [type |-> type, version |-> version]

(* A stack is created, then updated or deleted. *)
MCDeployments ==
  << {Deployment("Create", first)},
     {Deployment("Update", second), Deployment("Update", incomplete), Deployment("Delete", first)} >>
=============================================================================
