------------------------------ MODULE MCServices ------------------------------
(* One project with every service; or two whose names share a host label, and *)
(* storage.                                                                   *)
EXTENDS Services

CONSTANTS u1, u2, u3

ThreeUuids  == {u1, u2, u3}
OneProject  == {<<"a">>}
TwoProjects == {<<"a", "_", "b">>, <<"a", "_", "_", "b">>}
AllServices == {"auth", "rest", "storage", "realtime", "functions"}
AuthStorage == {"auth", "storage"}
AllModes    == {"legacy", "namespace", "docker"}
Namespace   == {"namespace"}

=============================================================================
