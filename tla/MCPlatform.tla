----------------------------- MODULE MCPlatform -----------------------------
(***************************************************************************)
(* Platform for TLC: two threads, a master and a slave line besides the    *)
(* timer, and loader reports that are even and uneven, that leave nothing  *)
(* behind the kernel, that overlap it, and that do not fit 32 bits.        *)
(***************************************************************************)
EXTENDS Platform

CONSTANTS t1, t2

Reports ==
  [flags : {1}, lower : {639, 2000}, upper : {485, Word - 1000}, kend : {700, 1501}]
  \cup [flags : {1}, lower : {640}, upper : {100, 3145728}, kend : {1500}]
  \cup [flags : {0, 3}, lower : {Word + 640}, upper : {15361}, kend : {1500}]
=============================================================================
