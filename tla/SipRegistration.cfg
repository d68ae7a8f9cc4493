\* A binding lasts 55 s and is refreshed after 25; a healthy proxy answers within 5 s.  Two
\* requests or unread answers are left over from the attempts before.
CONSTANTS
  Expires = 11
  MaxDelay = 1
  MaxPipe = 2
  Long = 22
SPECIFICATION FairSpec
INVARIANTS TypeOK 
PROPERTIES NeverLapses RegistrationResumes RefreshThreadEnds
