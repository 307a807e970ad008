------------------------------- MODULE MCEpoll -------------------------------
(* Instance of Epoll for TLC: descriptors are interchangeable.               *)
EXTENDS Epoll, TLC

FdSymmetry == Permutations(Fds)
=============================================================================
