---- MODULE MCDiskEditor ----
\* Windows of three lines over lists of up to eight items: longer than two
\* windows, shorter than one, and exactly one.
EXTENDS DiskEditor
====
