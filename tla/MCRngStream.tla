------------------------------ MODULE MCRngStream ------------------------------
(* Moduli 113 and 109, with multipliers that give both components their       *)
(* longest period, and doubles of 11 bits, in which every size stands to the   *)
(* others as in the real generator: what MultModM splits fits, products of two *)
(* residues do not, nor does the sum of a value and a second one times fact.   *)
(* From place 9 on, U01d takes the combinations 113 and 65.                    *)
EXTENDS RngStreamProps

MCM == <<113, 109>>
MCPackage == << <<46, 70, 31>>, <<104, 8, 43>> >>
MCSeeds == {Orbit[6], << <<113, 2, 3>>, <<1, 2, 3>> >>,
            << <<0, 0, 0>>, <<1, 2, 3>> >>, << <<1, 2, 3>>, <<0, 0, 0>> >>}
MCAdvances == {<<0, 3>>, <<0, -3>>, <<2, -1>>, <<-1, 0>>, <<3, 2>>, <<-2, -3>>}
=============================================================================
