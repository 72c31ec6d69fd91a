----------------------------- MODULE MCDiscovery -----------------------------
(***************************************************************************)
(* Instances of Discovery for TLC: two services with addresses of their    *)
(* own, one with the address of another, one without a grpc endpoint, one   *)
(* whose key only shares the prefix.                                        *)
(***************************************************************************)
EXTENDS Discovery

CONSTANTS s1, s2, s3, s4, s5

MCServices == {s1, s2, s3, s4, s5}
MCName == {s1, s2, s3, s4}
MCAddr == [s \in MCServices |->
             IF s = s4 THEN NoAddr ELSE IF s = s3 THEN "a1" ELSE IF s = s1 THEN "a1"
             ELSE IF s = s2 THEN "a2" ELSE "a5"]

=============================================================================
