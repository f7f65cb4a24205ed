---------------------------- MODULE MCSubmission ----------------------------
(* Five requests: two carry the same key and content, a third reuses their    *)
(* key for another employee, a fourth comes for the first employee and a      *)
(* fifth for a third one.  The last two employees collide on one lock.        *)
EXTENDS Submission

CONSTANTS r1, r2, r3, r4, r5, k1, k2, k3, ann, bob, cyd, raise, move, bank, leave,
          hash1, hash2

MCRequests == {r1, r2, r3, r4, r5}
MCKeyOf == [r \in Request |-> IF r = r4 THEN k2 ELSE IF r = r5 THEN k3 ELSE k1]
MCBodyOf ==
  [r \in Request |-> IF r = r3 THEN move
                     ELSE IF r = r4 THEN bank
                     ELSE IF r = r5 THEN leave ELSE raise]
MCEmployeeOf ==
  [r \in Request |-> IF r = r3 THEN bob ELSE IF r = r5 THEN cyd ELSE ann]
MCLockOf == [emp \in Employee |-> IF emp = ann THEN hash1 ELSE hash2]
=============================================================================
