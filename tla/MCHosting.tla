------------------------------ MODULE MCHosting ------------------------------
(* Bounds for Hosting: two applications, two ports, one to begin with that is  *)
(* health-checked, HTTP or a TCP stream (the form lets a stream ask for it).   *)
EXTENDS Hosting

Form(scheme, listen, backend, checked) ==
    [scheme |-> scheme, listen |-> listen, backend |-> backend,
     checked |-> checked, attack |-> FALSE]

MCForms == {Form("http", 0, 0, TRUE), Form("tcp", 0, 0, FALSE), Form("udp", 1, 0, FALSE)}
First == CHOOSE x \in Apps : TRUE
MCTables == {[x \in {First} |-> Form("tcp", 1, 1, TRUE)],
             [x \in {First} |-> Form("http", 0, 0, TRUE)]}
=============================================================================
