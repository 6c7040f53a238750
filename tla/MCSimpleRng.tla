---------------------------- MODULE MCSimpleRng ----------------------------
(***************************************************************************)
(* The generator at its real width, from a few seeds, together with all    *)
(* its states at once.                                                     *)
(***************************************************************************)
EXTENDS ZeroRuns

VARIABLE drawn

(* 0x9E3779B97F4A7C15 *)
MCGolden == {0, 2, 4, 10, 11, 12, 13, 14, 17, 19, 22, 24, 25, 26, 27, 28, 29,
             30, 32, 35, 36, 37, 39, 40, 43, 44, 45, 46, 48, 49, 50, 52, 53,
             57, 58, 59, 60, 63}

(* 0, u64::MAX, 1, 0xABCD_EF01 of the tests, and a lone high bit. *)
MCSeeds == {{}, 0..63, {0}, {63},
            {0, 8, 9, 10, 11, 13, 14, 15, 16, 18, 19, 22, 23, 24, 25, 27, 29, 31}}

(* A draw of either retry loop is at least one byte, and MaxDraws of them   *)
(* are far fewer than the hundred the loops allow.                         *)
MaxDraws == 9

MCInit == ZeroInit /\ drawn = 0

MCDraw ==
  /\ drawn < 3 * MaxDraws
  /\ Draw
  /\ drawn' = drawn + 1

MCLookAt == LookAt /\ UNCHANGED drawn

MCNext == MCDraw \/ MCLookAt

MCSpec == MCInit /\ [][MCNext]_<<zeroVars, drawn>>

(***************************************************************************)
(* From no state at all does the generator draw MaxDraws zero bytes in a   *)
(* row. The retry loops of encode_random and recode, which give up after a *)
(* hundred all-zero draws and fix the first coefficient to 1, therefore    *)
(* never do so with the library's own generator.                           *)
(***************************************************************************)
ZeroRunsAreShort == drawn >= MaxDraws /\ bit = 8 => basis = {} /\ ~zeros
=============================================================================
