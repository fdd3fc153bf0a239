------------------------------- MODULE MCKernel -------------------------------
(* Kernel with the map of MCBobMap, and two processes, one caller and two     *)
(* entries for the driver.                                                    *)
EXTENDS MCBobMap, Kernel
===============================================================================
