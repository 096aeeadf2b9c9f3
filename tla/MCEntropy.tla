------------------------------- MODULE MCEntropy -------------------------------
(* A small instance of Entropy: two generators that are accepted and one    *)
(* that is not, two calls, and levels below and at the threshold.           *)
EXTENDS Entropy

MCtrngList == <<"tpm-rng", "intel-rng">>
MCGenerators == {"tpm-rng", "intel-rng", "virtio"}
================================================================================
